---- MODULE Spec2Model ----
(***************************************************************************)
(* Model of the milk-intelligence ingestion pipeline: the MQTT callback    *)
(* on_message (src/main.py), the history ledger (utils/history_utils.py),  *)
(* the analytics reductions (services/analytics_service.py), the rule      *)
(* engine (services/alert_service.py) and the /test/load-sample endpoint   *)
(* (routers/test_loader.py), which shares app.mqtt_latest with on_message. *)
(*                                                                         *)
(* Units.  fat, snf, ts are kept in tenths of a percent (40 = 4.0).        *)
(* Risks are kept in thousandths of a percent (85000 = 85.0, 850 = 0.85).  *)
(* Averages of fat/snf/ts are in thousandths, scores in hundredths,        *)
(* persistence in ten-thousandths.  An absent value (None, NaN) is NA.     *)
(***************************************************************************)
EXTENDS Integers, Sequences, FiniteSets, TLC

VARIABLES
    ledger,                 \* data/history.csv: the sequence of HistoryEntry rows
    mqtt_latest,            \* app.mqtt_latest
    last_pushed_sample_id,  \* app.last_pushed_sample_id
    last_push_timestamp,    \* app.last_push_timestamp
    clock,                  \* datetime.datetime.now(), a logical clock
    pc,                     \* position of the MQTT thread inside on_message
    payload,                \* on_message's local `payload` dict
    run,                    \* bookkeeping of the current on_message run
    alert_history,          \* rows written by insert_alert_to_db
    loader,                 \* position and body of a /test/load-sample request
    nmsg,                   \* messages delivered to on_message so far
    nload,                  \* /test/load-sample requests started so far
    reader,                 \* position of a GET /analytics/full request
    _SHAP_CACHE,            \* utils/shap_cache.py: the deque of SHAP records
    _EXPLAINERS,            \* services/shap_service.py: target -> explainer held
    constructed             \* targets an explainer was constructed for so far

vars == <<ledger, mqtt_latest, last_pushed_sample_id, last_push_timestamp,
          clock, pc, payload, run, alert_history, loader, nmsg, nload,
          reader, _SHAP_CACHE, _EXPLAINERS, constructed>>

\* what the attribution code keeps between calls
shap_state == <<_SHAP_CACHE, _EXPLAINERS, constructed>>

----------------------------------------------------------------------------
(* Bounds of the model *)

MaxMsgs == 3        \* MQTT messages delivered in one behaviour of Spec
MaxFaultMsgs == 1   \* ... of SpecFaults
MaxLoaderMsgs == 2  \* ... of SpecLoader
MaxDataMsgs == 3    \* ... of SpecData
MaxLedgerMsgs == 2  \* ... of SpecLedger
MaxRuleMsgs == 4    \* ... of SpecRules
MaxEngineMsgs == 2  \* ... of SpecEngine
MaxReaderMsgs == 2  \* ... of SpecReaders
MaxQueryMsgs == 1   \* ... of SpecQueries
MaxQueries == 2     \* complete GET /analytics/full evaluations
MaxCacheMsgs == 3   \* ... of SpecCache
MaxShapReads == 1   \* get_shap_history calls of one behaviour
MaxTopMsgs == 2     \* ... of SpecTop
MaxClassify == 2    \* classify_traffic calls of one behaviour
MaxReads == 1       \* GET /analytics/full requests of one behaviour
MaxLoads == 1       \* /test/load-sample requests in one behaviour
MaxFail == 1        \* collaborator failures injected together (or all of them)

(* Program constants *)

POST_RETRIES == 2
BATCH_SIZE == 20

----------------------------------------------------------------------------
(* Absent values *)

NA == -1            \* None / NaN of a numeric field
None == "None"      \* None of an identifier or of a reference
NonNumeric == -2    \* a value float() rejects: a string without a number

----------------------------------------------------------------------------
(* Arithmetic helpers *)

\* round(a / b, .) to the nearest unit, ties to even, as Python's round()
RoundDiv(a, b) ==
    LET q == a \div b
        r == a % b
    IN  IF 2 * r < b THEN q
        ELSE IF 2 * r > b THEN q + 1
        ELSE IF q % 2 = 0 THEN q ELSE q + 1

RECURSIVE GCD(_, _)
GCD(a, b) == IF b = 0 THEN a ELSE GCD(b, a % b)

RECURSIVE SumSeq(_)
SumSeq(s) == IF s = <<>> THEN 0 ELSE Head(s) + SumSeq(Tail(s))

RECURSIVE SelectIdx(_, _, _)
\* the subsequence of s at the positions i >= from where Keep(s[i]) holds
SelectIdx(s, Keep(_), from) ==
    IF from > Len(s) THEN <<>>
    ELSE IF Keep(s[from]) THEN <<s[from]>> \o SelectIdx(s, Keep, from + 1)
    ELSE SelectIdx(s, Keep, from + 1)

Filter(s, Keep(_)) == SelectIdx(s, Keep, 1)

Column(df, col) == [i \in 1..Len(df) |-> df[i][col]]

Present(s) == Filter(s, LAMBDA x : x # NA)

----------------------------------------------------------------------------
(* utils/history_utils.py *)

\* uuid.uuid4() rendered as a string: a value unequal to every sample id a
\* message can carry and to every uuid drawn at another clock tick
Uuid4(k) == <<"uuid-1", "uuid-2", "uuid-3", "uuid-4", "uuid-5", "uuid-6",
              "uuid-7", "uuid-8", "uuid-9", "uuid-10", "uuid-11", "uuid-12",
              "uuid-13", "uuid-14", "uuid-15", "uuid-16">>[k]

\* Series.mean() skips NaN; the mean of no value is NaN.  scale converts the
\* unit of the column into the unit of the rounded result.
MeanRound(col, scale) ==
    LET p == Present(col)
    IN  IF p = <<>> THEN NA ELSE RoundDiv(SumSeq(p) * scale, Len(p))

\* Series.std() (ddof = 1, NaN skipped), kept as its square: the variance in
\* (tenths)^2 as a reduced fraction.  Fewer than two values give NaN.
VarNaN == [num |-> NA, den |-> 1]
VarZero == [num |-> 0, den |-> 1]
StdOf(col) ==
    LET p == Present(col)
        k == Len(p)
        \* k * sum(x^2) - sum(x)^2, as the sum of the squared pair differences
        a == SumSeq([i \in 1..k |->
                 SumSeq([j \in 1..k |->
                     IF i < j THEN (p[i] - p[j]) * (p[i] - p[j]) ELSE 0])])
        b == k * (k - 1)
        g == GCD(a, b)
    IN  IF k < 2 THEN VarNaN
        ELSE IF a = 0 THEN VarZero
        ELSE [num |-> a \div g, den |-> b \div g]

\* (col.diff().fillna(0) >= 0).mean(): the first difference and every
\* difference next to a NaN are NaN, become 0 and count as non-negative
NonNegDiffs(col) ==
    Cardinality({i \in 1..Len(col) :
        \/ i = 1
        \/ col[i] = NA
        \/ col[i - 1] = NA
        \/ col[i] - col[i - 1] >= 0})

PersistenceOf(col) == RoundDiv(NonNegDiffs(col) * 10000, Len(col))

compute_sample_score(fat, snf, ts, adulteration_risk) ==
    IF fat = NA \/ snf = NA \/ ts = NA \/ adulteration_risk = NA THEN NA
    ELSE RoundDiv(20000 * fat + 9000 * snf + 4000 * ts
                  + 300000 - 3 * adulteration_risk, 300)

compute_supplier_metrics(df_supplier) ==
    IF df_supplier = <<>>
    THEN [avg_fat |-> 0, avg_snf |-> 0, avg_ts |-> 0,
          stability |-> VarZero, persistence |-> 10000]
    ELSE [avg_fat |-> MeanRound(Column(df_supplier, "fat"), 100),
          avg_snf |-> MeanRound(Column(df_supplier, "snf"), 100),
          avg_ts |-> MeanRound(Column(df_supplier, "ts"), 100),
          stability |-> IF Len(df_supplier) > 1
                        THEN StdOf(Column(df_supplier, "fat")) ELSE VarZero,
          persistence |-> IF Len(df_supplier) > 1
                          THEN PersistenceOf(Column(df_supplier, "fat"))
                          ELSE 10000]

compute_route_score(df_route) ==
    IF df_route # <<>> THEN MeanRound(Column(df_route, "sample_score"), 1) ELSE 0

compute_batch_metrics(df_batch) ==
    IF df_batch = <<>> THEN [avg_score |-> 0, adulteration_freq |-> 0]
    ELSE [avg_score |-> MeanRound(Column(df_batch, "sample_score"), 1),
          adulteration_freq |->
              MeanRound(Column(df_batch, "is_adulterated"), 10000)]

compute_global_quality_index(df) ==
    IF df # <<>> THEN MeanRound(Column(df, "sample_score"), 1) ELSE 0

\* _create_empty_history: the file with the header line and no row
_create_empty_history == <<>>

\* The file _ensure_history_exists leaves behind: a missing or empty file,
\* and a file pd.read_csv raises on (readable = FALSE), are recreated empty
_ensure_history_exists(file, readable) ==
    IF file = <<>> \/ ~readable THEN _create_empty_history ELSE file

\* int(text) for the texts pd.read_csv takes for integers, NA for others
IntOf(text) == CASE text = "007" -> 7
                 [] text = "7" -> 7
                 [] OTHER -> NA

\* str(n) as to_csv writes an integer cell
StrOf(n) == CASE n = 7 -> "7"

\* pd.read_csv infers the type of a column from all of its cells: a column
\* whose cells all read as integers becomes int64, and to_csv writes the
\* integers back without the leading zeros; any other id column keeps its
\* texts
ReadColumn(df, col) ==
    IF df # <<>> /\ \A i \in 1..Len(df) : IntOf(df[i][col]) # NA
    THEN [i \in 1..Len(df) |-> StrOf(IntOf(df[i][col]))]
    ELSE [i \in 1..Len(df) |-> df[i][col]]

\* pd.read_csv(HISTORY_FILE) of a readable file: the rows in file order,
\* the id columns as type inference leaves them
load_history_df(file) ==
    [i \in 1..Len(file) |->
        [file[i] EXCEPT !.sample_id = ReadColumn(file, "sample_id")[i],
                        !.supplier_id = ReadColumn(file, "supplier_id")[i],
                        !.route_id = ReadColumn(file, "route_id")[i]]]

\* The rows of df a new sample is grouped with
SupplierRows(df, supplier_id) ==
    Filter(df, LAMBDA r : r.supplier_id = supplier_id)
RouteRows(df, route_id) == Filter(df, LAMBDA r : r.route_id = route_id)
BatchRows(df, batch_id) == Filter(df, LAMBDA r : r.batch_id = batch_id)

\* The entry append_sample(payload) builds from the history df it loaded;
\* now is the clock tick the row's uuid and timestamp are drawn at
HistoryEntry(df, p, now) ==
    LET infer == p.inference
        sd == infer.supplier_data
        sample_id == IF sd.sample_id = None THEN Uuid4(now) ELSE sd.sample_id
        supplier_id == IF sd.supplier_id = None
                       THEN "UNKNOWN_SUPPLIER" ELSE sd.supplier_id
        route_id == IF sd.route_id = None THEN "UNKNOWN_ROUTE" ELSE sd.route_id
        batch_id == IF Len(df) > 0 THEN Len(df) \div BATCH_SIZE ELSE 0
        sup == compute_supplier_metrics(SupplierRows(df, supplier_id))
        bat == compute_batch_metrics(BatchRows(df, batch_id))
    IN  [entry_id |-> now,
         timestamp |-> now,
         sample_id |-> sample_id,
         supplier_id |-> supplier_id,
         route_id |-> route_id,
         fat |-> infer.fat_predicted,
         ts |-> infer.total_solids_predicted,
         snf |-> infer.snf,
         adulteration_risk |-> infer.adulteration_risk,
         is_adulterated |-> infer.is_adulterated,
         price |-> p.price,
         batch_id |-> batch_id,
         sample_score |-> compute_sample_score(infer.fat_predicted, infer.snf,
                              infer.total_solids_predicted,
                              infer.adulteration_risk),
         supplier_avg_fat |-> sup.avg_fat,
         supplier_avg_snf |-> sup.avg_snf,
         supplier_avg_ts |-> sup.avg_ts,
         supplier_stability |-> sup.stability,
         supplier_persistence |-> sup.persistence,
         route_score |-> compute_route_score(RouteRows(df, route_id)),
         batch_avg_score |-> bat.avg_score,
         batch_adulteration_freq |-> bat.adulteration_freq,
         global_quality_index |->
             IF Len(df) > 0 THEN compute_global_quality_index(df) ELSE 0]

\* an append that writes the row first and computes its metrics from the
\* file that already holds it
append_sample_SnapshotAfterAppend(file, p, now) ==
    LET df == load_history_df(file)
        written == Append(df, HistoryEntry(df, p, now))
    IN  Append(df, [HistoryEntry(written, p, now)
                       EXCEPT !.batch_id = written[Len(written)].batch_id])

\* an append that builds the entry and never writes it
append_sample_NotWritten(file, p, now) == load_history_df(file)

\* The file append_sample leaves behind: the loaded rows and the new entry
append_sample(file, p, now) ==
    LET df == load_history_df(file)
    IN  Append(df, HistoryEntry(df, p, now))

----------------------------------------------------------------------------
(* services/risk_service.py, price_service.py, milk_type_service.py *)

\* get_value(payload, key...): the top-level field when it is there and not
\* None, else the field of payload["inference"] when that is a dict, else
\* None
get_value(p, key) ==
    IF p.top[key] # NA THEN p.top[key]
    ELSE IF p.inference.isdict THEN p.inference[key]
    ELSE NA

\* float(value): raises for a value that is no number
FloatOf(value) ==
    IF value = NonNumeric THEN [ok |-> FALSE, v |-> 0]
    ELSE [ok |-> TRUE, v |-> value]

\* a classifier whose red band includes the low threshold
classify_traffic_RedAtLow(value, low, high) ==
    IF value = NA \/ ~FloatOf(value).ok THEN "unknown"
    ELSE IF FloatOf(value).v <= low THEN "red"
    ELSE IF FloatOf(value).v >= high THEN "green"
    ELSE "yellow"

\* lines 35-52; the bare except turns the error of float() into "unknown"
classify_traffic(value, low, high) ==
    IF value = NA THEN "unknown"
    ELSE IF ~FloatOf(value).ok THEN "unknown"
    ELSE IF FloatOf(value).v < low THEN "red"
    ELSE IF FloatOf(value).v >= high THEN "green"
    ELSE "yellow"

DEFAULT_THRESHOLDS ==
    [fat |-> [low |-> 35, high |-> 45],
     snf |-> [low |-> 80, high |-> 90],
     ts |-> [low |-> 115, high |-> 135]]

compute_traffic_cards(p) ==
    LET fat == get_value(p, "fat_predicted")
        snf == get_value(p, "snf")
        ts == get_value(p, "total_solids_predicted")
        card(v, t) == [value |-> v, risk |-> classify_traffic(v, t.low, t.high)]
    IN  [has |-> TRUE,
         fat |-> card(fat, DEFAULT_THRESHOLDS.fat),
         snf |-> card(snf, DEFAULT_THRESHOLDS.snf),
         ts |-> card(ts, DEFAULT_THRESHOLDS.ts)]

classify_milk_type(fat, snf, ts) ==
    IF fat < 15 /\ snf < 65 THEN "almond"
    ELSE IF fat < 20 /\ snf < 75 THEN "oat"
    ELSE IF 10 <= fat /\ fat <= 25 /\ 70 <= snf /\ snf <= 90 THEN "soy"
    ELSE IF fat > 60 /\ snf > 95 THEN "buffalo"
    ELSE IF 20 < fat /\ fat < 38 /\ 85 <= snf /\ snf <= 95 THEN "camel"
    ELSE IF fat < 40 /\ snf < 86 THEN "goat"
    ELSE IF 32 <= fat /\ fat <= 58 /\ 80 <= snf /\ snf <= 98 THEN "cow"
    ELSE "unknown"

\* classify_milk_from_payload raises when a traffic card holds value None
\* (float(None)); without traffic cards every value falls back to 0.0
MilkTypeRaises(p) ==
    /\ p.traffic_cards.has
    /\ \/ p.traffic_cards.fat.value = NA
       \/ p.traffic_cards.snf.value = NA
       \/ p.traffic_cards.ts.value = NA

classify_milk_from_payload(p) ==
    IF p.traffic_cards.has
    THEN classify_milk_type(p.traffic_cards.fat.value,
                            p.traffic_cards.snf.value,
                            p.traffic_cards.ts.value)
    ELSE classify_milk_type(0, 0, 0)

\* recompute_adulteration_risk for the decision_function score the
\* IsolationForest returns (in thousandths)
recompute_adulteration_risk(score) ==
    LET risk_pct == (1000 - score) * 50 + 50000
        clipped == IF risk_pct < 0 THEN 0
                   ELSE IF risk_pct > 100000 THEN 100000 ELSE risk_pct
    IN  [has |-> TRUE, isnone |-> FALSE, error |-> FALSE,
         adulteration_risk_recomputed |-> clipped,
         is_adulterated_recomputed |-> IF clipped > 50000 THEN 1 ELSE 0]

\* {"error": "IsolationForest model not available"}
AdulterationUnavailable ==
    [has |-> TRUE, isnone |-> FALSE, error |-> TRUE,
     adulteration_risk_recomputed |-> NA, is_adulterated_recomputed |-> NA]

\* the key is absent from the payload
AdulterationAbsent ==
    [has |-> FALSE, isnone |-> FALSE, error |-> FALSE,
     adulteration_risk_recomputed |-> NA, is_adulterated_recomputed |-> NA]

\* the key holds None (set by load_sample when the recomputation raised)
AdulterationNone ==
    [has |-> TRUE, isnone |-> TRUE, error |-> FALSE,
     adulteration_risk_recomputed |-> NA, is_adulterated_recomputed |-> NA]

BASE_PRICE == 3300

\* calculate_price(payload)["final_price"], in hundredths
calculate_price(p) ==
    LET fat == get_value(p, "fat_predicted")
        snf == get_value(p, "snf")
        ts == get_value(p, "total_solids_predicted")
        \* 1000 * score, score = fat*0.4 + snf*0.35 + ts*0.25
        score == IF fat = NA \/ snf = NA \/ ts = NA THEN 0
                 ELSE 40 * fat + 35 * snf + 25 * ts
        \* 10000 * multiplier, multiplier = max(0.5, min(1.5, score / 10))
        mult == IF score < 5000 THEN 5000
                ELSE IF score > 15000 THEN 15000 ELSE score
    IN  RoundDiv(BASE_PRICE * mult, 10000)

----------------------------------------------------------------------------
(* services/analytics_service.py *)

INDIAN_MILK_BRANDS == {"Amul", "Nandini"}

compute_sample_analytics(latest) ==
    [sample_id |-> latest.sample_id,
     score |-> latest.sample_score,
     fat |-> latest.fat, snf |-> latest.snf, ts |-> latest.ts,
     adulteration_risk |-> latest.adulteration_risk,
     is_adulterated |-> latest.is_adulterated,
     price |-> latest.price]

\* supplier_name is the random.choice(INDIAN_MILK_BRANDS) of the call
compute_supplier_analytics(df, latest, supplier_name) ==
    LET supplier_df == SupplierRows(df, latest.supplier_id)
    IN  IF supplier_df = <<>>
        THEN [has |-> TRUE, supplier_id |-> latest.supplier_id,
              supplier_name |-> supplier_name,
              avg_fat |-> 0, avg_snf |-> 0, avg_ts |-> 0,
              stability |-> VarZero, persistence |-> 10000]
        ELSE
        [has |-> TRUE,
         supplier_id |-> latest.supplier_id,
         supplier_name |-> supplier_name,
         avg_fat |-> MeanRound(Column(supplier_df, "fat"), 100),
         avg_snf |-> MeanRound(Column(supplier_df, "snf"), 100),
         avg_ts |-> MeanRound(Column(supplier_df, "ts"), 100),
         stability |-> IF Len(supplier_df) > 1
                       THEN StdOf(Column(supplier_df, "fat")) ELSE VarZero,
         persistence |-> IF Len(supplier_df) > 1
                         THEN PersistenceOf(Column(supplier_df, "fat"))
                         ELSE 10000]

compute_route_analytics(df, latest) ==
    LET route_df == RouteRows(df, latest.route_id)
    IN  IF route_df = <<>>
        THEN [has |-> TRUE, route_id |-> latest.route_id,
              avg_fat |-> 0, avg_snf |-> 0, avg_ts |-> 0,
              stability |-> VarZero, persistence |-> 10000, route_score |-> 0]
        ELSE
        [has |-> TRUE,
         route_id |-> latest.route_id,
         avg_fat |-> MeanRound(Column(route_df, "fat"), 100),
         avg_snf |-> MeanRound(Column(route_df, "snf"), 100),
         avg_ts |-> MeanRound(Column(route_df, "ts"), 100),
         stability |-> IF Len(route_df) > 1
                       THEN StdOf(Column(route_df, "sample_score"))
                       ELSE VarZero,
         persistence |-> IF Len(route_df) > 1
                         THEN PersistenceOf(Column(route_df, "sample_score"))
                         ELSE 10000,
         route_score |-> MeanRound(Column(route_df, "sample_score"), 1)]

compute_batch_analytics(df, latest) ==
    LET batch_df == BatchRows(df, latest.batch_id)
    IN  IF batch_df = <<>>
        THEN [has |-> TRUE, batch_id |-> latest.batch_id,
              avg_fat |-> 0, avg_snf |-> 0, avg_ts |-> 0,
              stability |-> VarZero, persistence |-> 10000,
              adulteration_freq |-> 0]
        ELSE
        [has |-> TRUE,
         batch_id |-> latest.batch_id,
         avg_fat |-> MeanRound(Column(batch_df, "fat"), 100),
         avg_snf |-> MeanRound(Column(batch_df, "snf"), 100),
         avg_ts |-> MeanRound(Column(batch_df, "ts"), 100),
         stability |-> IF Len(batch_df) > 1
                       THEN StdOf(Column(batch_df, "sample_score"))
                       ELSE VarZero,
         persistence |-> IF Len(batch_df) > 1
                         THEN PersistenceOf(Column(batch_df, "sample_score"))
                         ELSE 10000,
         adulteration_freq |->
             MeanRound(Column(batch_df, "is_adulterated"), 10000)]

compute_global_analytics(df) ==
    [has |-> TRUE,
     global_quality_index |-> MeanRound(Column(df, "sample_score"), 1),
     total_samples |-> Len(df)]

\* A section of the analytics dict that is {} or holds no statistics; keys
\* names the group the section is about, where the payload supplies one
NoStats(keys) == [has |-> FALSE, keys |-> keys]

\* compute_full_analytics(payload) over the history file as it is read
compute_full_analytics(file, p, supplier_name) ==
    LET df == load_history_df(file)
    IN  IF df # <<>>
        THEN LET latest == df[Len(df)]
             IN  [error |-> FALSE,
                  source |-> "history",
                  rows |-> Len(df),
                  sample |-> compute_sample_analytics(latest),
                  supplier |-> compute_supplier_analytics(df, latest,
                                                          supplier_name),
                  route |-> compute_route_analytics(df, latest),
                  batch |-> compute_batch_analytics(df, latest),
                  global |-> compute_global_analytics(df)]
        ELSE [error |-> FALSE,
              source |-> "payload",
              rows |-> 0,
              sample |-> [sample_id |-> p.sample_id,
                          score |-> NA,
                          fat |-> p.inference.fat_predicted,
                          snf |-> p.inference.snf,
                          ts |-> p.inference.total_solids_predicted,
                          adulteration_risk |->
                              p.adulteration_recomputed
                               .adulteration_risk_recomputed,
                          is_adulterated |->
                              p.adulteration_recomputed
                               .is_adulterated_recomputed,
                          price |-> p.price],
              supplier |-> NoStats(p.inference.supplier_data.supplier_id),
              route |-> NoStats(None),
              batch |-> NoStats(None),
              global |-> NoStats(None)]

\* compute_full_analytics() as GET /analytics/full calls it, payload = None:
\* five empty dicts when the history holds no row
compute_full_analytics_NoPayload(file, supplier_name) ==
    IF load_history_df(file) # <<>>
    THEN compute_full_analytics(file, [sample_id |-> None], supplier_name)
    ELSE [error |-> FALSE, source |-> "none", rows |-> 0,
          sample |-> NoStats(None), supplier |-> NoStats(None),
          route |-> NoStats(None), batch |-> NoStats(None),
          global |-> NoStats(None)]

\* {"error": "analytics_failed: ..."} after setdefault("sample", {})
AnalyticsFailed ==
    [error |-> TRUE, source |-> "none", rows |-> 0,
     sample |-> [sample_id |-> None, score |-> NA, fat |-> NA, snf |-> NA,
                 ts |-> NA, adulteration_risk |-> NA, is_adulterated |-> NA,
                 price |-> NA],
     supplier |-> NoStats(None), route |-> NoStats(None),
     batch |-> NoStats(None), global |-> NoStats(None)]

----------------------------------------------------------------------------
(* utils/shap_cache.py, services/shap_service.py *)

\* deque(maxlen=200)
SHAP_MAXLEN == 200

\* the keys of _EXPLAINERS
Targets == {"fat", "ts", "adulteration"}

\* a deque that never evicts
DequeAppend_Unbounded(d, x, maxlen) == Append(d, x)

\* deque.append on a deque with maxlen: at capacity the leftmost item is
\* discarded
DequeAppend(d, x, maxlen) ==
    IF Len(d) < maxlen THEN Append(d, x) ELSE Append(Tail(d), x)

\* lines 19-30: the record of a payload; the timestamp falls back to
\* datetime.now(), the sample id is read at top level and directly under
\* "inference", where the interface does not put it
ShapRecord(p, now) ==
    [timestamp |-> now,
     sample_id |-> p.sample_id,
     fat |-> "fat" \in p.shap,
     ts |-> "ts" \in p.shap,
     adulteration |-> "adulteration" \in p.shap]

\* line 23: payload.get("inference", {}).get("timestamp") raises when the
\* inference block is null
PushRaises(p) == ~p.inference.isdict

push_shap_sample(cache, p, now) ==
    DequeAppend(cache, ShapRecord(p, now), SHAP_MAXLEN)

\* data[-limit:] for a positive limit, the whole list otherwise
get_shap_history(cache, limit) ==
    IF limit # NA /\ limit > 0 /\ limit < Len(cache)
    THEN SubSeq(cache, Len(cache) - limit + 1, Len(cache))
    ELSE cache

\* shap_service.py lines 131-135: compute_shap_summary constructs the
\* explainer of its target when _EXPLAINERS[target] is None; line 234:
\* compute_adulteration_shap constructs a TreeExplainer in every call
Constructs(explainers, target) ==
    IF target = "adulteration" THEN TRUE ELSE ~explainers[target]

\* _EXPLAINERS after the calls for the targets in called; the adulteration
\* entry is never assigned
ExplainersAfter(explainers, called) ==
    [t \in Targets |-> explainers[t] \/ (t \in called /\ t # "adulteration")]

\* the targets whose explainer the calls in called construct
Constructing(explainers, called) ==
    {t \in called : Constructs(explainers, t)}

----------------------------------------------------------------------------
(* services/alert_service.py *)

\* a dispatcher that falls back to a generated id, as append_sample does
SampleIdOf_Generated(p) ==
    IF p.inference.supplier_data.sample_id # None
    THEN p.inference.supplier_data.sample_id
    ELSE Uuid4(1)

\* supplier_info.get("sample_id") or payload.get("sample_id"), where
\* supplier_info = payload["inference"]["supplier_data"] or {}
SampleIdOf(p) ==
    IF p.inference.supplier_data.sample_id # None
    THEN p.inference.supplier_data.sample_id
    ELSE p.sample_id

get_final_adulteration(p) ==
    [risk |-> p.adulteration_recomputed.adulteration_risk_recomputed,
     flag |-> p.adulteration_recomputed.is_adulterated_recomputed]

\* float(x or 0)
OrZero(x) == IF x = NA THEN 0 ELSE x

_build_alert(alert_type, severity, p) ==
    [type |-> alert_type,
     severity |-> severity,
     sample_id |-> SampleIdOf(p),
     supplier_id |-> p.inference.supplier_data.supplier_id,
     route_id |-> p.inference.supplier_data.route_id]

\* stability < 0.5 on the variance kept for the standard deviation:
\* std < 0.5 (percent) iff variance < 25 (tenths squared); NaN compares false
StabilityBelowHalf(v) == v.num # NA /\ v.num < 25 * v.den

\* a LOW_FAT rule that also fires on the threshold
LowFat_Inclusive(fat) == fat <= 25

\* line 255: if fat < 2.5
LowFat(fat) == fat < 25

RuleTable(p) ==
    LET inf == p.inference
        fat == OrZero(inf.fat_predicted)
        snf == OrZero(inf.snf)
        ts == OrZero(inf.total_solids_predicted)
        adulteration_risk == OrZero(get_final_adulteration(p).risk)
        is_adulterated == OrZero(get_final_adulteration(p).flag)
        supplier_stats == p.analytics.supplier
        route_stats == p.analytics.route
        batch_stats == p.analytics.batch
        \* .get("stability", 1), .get("persistence", 1),
        \* .get("route_score", 100), .get("adulteration_freq", 0)
        stability_low == supplier_stats.has
                         /\ StabilityBelowHalf(supplier_stats.stability)
        persistence == IF supplier_stats.has
                       THEN supplier_stats.persistence ELSE 10000
        route_score == IF route_stats.has
                       THEN route_stats.route_score ELSE 10000
        batch_adult_freq == IF batch_stats.has
                            THEN batch_stats.adulteration_freq ELSE 0
    IN  << [type |-> "CRITICAL_ADULTERATION", severity |-> "high",
            fires |-> adulteration_risk > 80000 \/ is_adulterated = 1],
           [type |-> "LOW_FAT", severity |-> "medium", fires |-> LowFat(fat)],
           [type |-> "LOW_SNF", severity |-> "medium", fires |-> snf < 80],
           [type |-> "LOW_TS", severity |-> "medium", fires |-> ts < 115],
           [type |-> "SUPPLIER_STABILITY_DROP", severity |-> "low",
            fires |-> stability_low],
           [type |-> "SUPPLIER_PERSISTENCE_LOW", severity |-> "low",
            fires |-> persistence # NA /\ persistence < 4000],
           [type |-> "ROUTE_QUALITY_LOW", severity |-> "medium",
            fires |-> route_score # NA /\ route_score < 6000],
           [type |-> "HIGH_BATCH_ADULTERATION_RATE", severity |-> "high",
            fires |-> batch_adult_freq # NA /\ batch_adult_freq > 3000],
           [type |-> "MILK_TYPE_UNKNOWN", severity |-> "low",
            fires |-> p.milk_type \notin
                          {"cow", "buffalo", "mixed", "camel", "goat"}] >>

\* a rule engine that stops at the first rule that fires
evaluate_alert_rules_FirstMatch(p) ==
    LET fired == Filter(RuleTable(p), LAMBDA r : r.fires)
    IN  [i \in 1..(IF fired = <<>> THEN 0 ELSE 1) |->
            _build_alert(fired[i].type, fired[i].severity, p)]

\* the alerts evaluate_alert_rules(payload) returns, in the order it
\* appends them
evaluate_alert_rules(p) ==
    LET fired == Filter(RuleTable(p), LAMBDA r : r.fires)
    IN  [i \in 1..Len(fired) |-> _build_alert(fired[i].type,
                                              fired[i].severity, p)]

----------------------------------------------------------------------------
(* Inbound messages *)

SampleIds == {"A", "B"}

\* the sample ids of the rows an earlier run of the process appended
HistoricIds == <<"H1", "H2", "H3", "H4", "H5", "H6", "H7", "H8", "H9", "H10",
                 "H11", "H12", "H13", "H14", "H15", "H16", "H17", "H18",
                 "H19", "H20">>

\* The readings a message carries in its inference block
GoodProfile ==
    [supplier_id |-> "S1", route_id |-> "R1", fat_predicted |-> 40,
     snf |-> 85, total_solids_predicted |-> 125,
     adulteration_risk |-> 10000, is_adulterated |-> 0]

LowProfile ==
    [supplier_id |-> "S2", route_id |-> "R2", fat_predicted |-> 20,
     snf |-> 70, total_solids_predicted |-> 100,
     adulteration_risk |-> 85000, is_adulterated |-> 1]

\* the supplier of GoodProfile with other readings, on the route of
\* LowProfile
RichProfile ==
    [supplier_id |-> "S1", route_id |-> "R2", fat_predicted |-> 46,
     snf |-> 90, total_solids_predicted |-> 136,
     adulteration_risk |-> 20000, is_adulterated |-> 0]

Profiles == {GoodProfile, LowProfile, RichProfile}

\* readings that sit on the thresholds of the rule engine
EdgeProfile ==
    [supplier_id |-> "S1", route_id |-> "R1", fat_predicted |-> 25,
     snf |-> 80, total_solids_predicted |-> 115,
     adulteration_risk |-> 50000, is_adulterated |-> 0]

InferenceOf(sample_id, pr) ==
    [isdict |-> TRUE,
     fat_predicted |-> pr.fat_predicted,
     snf |-> pr.snf,
     total_solids_predicted |-> pr.total_solids_predicted,
     adulteration_risk |-> pr.adulteration_risk,
     is_adulterated |-> pr.is_adulterated,
     supplier_data |-> [sample_id |-> sample_id,
                        supplier_id |-> pr.supplier_id,
                        route_id |-> pr.route_id]]

\* a JSON object without the inference block
NoInference ==
    [isdict |-> TRUE,
     fat_predicted |-> NA, snf |-> NA, total_solids_predicted |-> NA,
     adulteration_risk |-> NA, is_adulterated |-> NA,
     supplier_data |-> [sample_id |-> None, supplier_id |-> None,
                        route_id |-> None]]

\* a JSON object with "inference": null; payload.get("inference", {}) is
\* then None, and get_value finds no reading in it
NullInference == [NoInference EXCEPT !.isdict = FALSE]

\* The interface's required fields: the three readings and the ids of
\* inference.supplier_data
HasRequiredFields(inf) ==
    /\ inf.fat_predicted # NA
    /\ inf.snf # NA
    /\ inf.total_solids_predicted # NA
    /\ inf.supplier_data.sample_id # None
    /\ inf.supplier_data.supplier_id # None
    /\ inf.supplier_data.route_id # None

\* msg.payload: bytes json.loads rejects, JSON that is not an object, or a
\* JSON object
\* the readings a JSON object carries as top-level fields, next to its
\* inference block
NoTop == [fat_predicted |-> NA, snf |-> NA, total_solids_predicted |-> NA]

TopMessage(inf, top) == [kind |-> "dict", inference |-> inf, top |-> top]

TopOf(msg) == IF "top" \in DOMAIN msg THEN msg.top ELSE NoTop

Unparseable == [kind |-> "unparseable", inference |-> NoInference]
NonDict == [kind |-> "nondict", inference |-> NoInference]
DictMessage(inf) == [kind |-> "dict", inference |-> inf]

\* every kind of message, one profile of readings
CtlMessages ==
    {Unparseable, NonDict, DictMessage(NoInference),
     DictMessage(NullInference)}
    \cup {DictMessage(InferenceOf(sid, LowProfile)) :
              sid \in SampleIds \cup {None}}

LoaderMessages ==
    {DictMessage(InferenceOf(sid, LowProfile)) : sid \in {"A", None}}

\* a sample the rule engine can evaluate and one whose inference block is
\* null
EngineMessages ==
    {DictMessage(InferenceOf("A", LowProfile)), DictMessage(NullInference)}

\* the rule evaluation, or the rule evaluation and the alert store, fail
EngineFailSets == {{}, {"alert_engine"}, {"alert_engine", "alert_db"}}

\* a sample with good readings in its inference block, alone and next to
\* top-level readings that are low or partly missing
TopMessages ==
    {TopMessage(InferenceOf("A", GoodProfile), top) :
         top \in {NoTop,
                  [NoTop EXCEPT !.fat_predicted = 20],
                  [fat_predicted |-> 20, snf |-> 70,
                   total_solids_predicted |-> 100]}}
    \cup {TopMessage([InferenceOf("A", GoodProfile)
                         EXCEPT !.fat_predicted = NA],
                     [NoTop EXCEPT !.fat_predicted = 40])}

\* a sample whose record is pushed and one whose push raises
CacheMessages ==
    {DictMessage(InferenceOf("A", LowProfile)), DictMessage(NullInference)}

\* well-formed samples with different ids
ReaderMessages ==
    {DictMessage(InferenceOf(sid, LowProfile)) : sid \in SampleIds}

\* well-formed samples, one of them with an id made of digits
LedgerMessages ==
    {DictMessage(InferenceOf(sid, LowProfile)) : sid \in {"007", "A"}}

\* samples of every profile, and one whose inference block has no
\* fat_predicted
RuleMessages ==
    {DictMessage(InferenceOf("A", pr)) : pr \in Profiles \cup {EdgeProfile}}
    \cup {DictMessage([InferenceOf("A", GoodProfile)
                          EXCEPT !.fat_predicted = NA])}

\* well-formed samples of every profile
DataMessages ==
    {DictMessage(InferenceOf(sid, pr)) : sid \in SampleIds, pr \in Profiles}

\* The payload dict json.loads returns for a JSON object, after
\* payload.setdefault("shap", {})
FreshPayload(inf) ==
    [inference |-> inf,
     top |-> NoTop,
     sample_id |-> None,
     shap |-> {},
     traffic_cards |-> [has |-> FALSE],
     traffic_cards_error |-> FALSE,
     milk_type |-> None,
     milk_type_error |-> FALSE,
     adulteration_recomputed |-> AdulterationAbsent,
     adulteration_recomputed_error |-> FALSE,
     price |-> NA,
     price_error |-> FALSE,
     analytics |-> AnalyticsFailed,
     has_analytics |-> FALSE,
     alerts |-> <<>>,
     has_alerts |-> FALSE,
     recommendations |-> FALSE]

----------------------------------------------------------------------------
(* Collaborators that can fail during one run of on_message *)

Stages == {"shap_fat", "shap_ts", "shap_adulteration", "traffic_cards",
           "anomaly", "price", "analytics", "alert_engine", "alert_db",
           "recommendation", "history", "build_analytics"}

\* The sets of collaborators that fail together during one run
FailSets == {F \in SUBSET Stages : Cardinality(F) <= MaxFail \/ F = Stages}

\* decision_function scores of the IsolationForest, in thousandths
ScoreVals == {300}

\* round(random.uniform(0.9, 0.80), 3), in thousandths of a percent
OverrideVals == {850}

\* What requests.post does: 0 stands for an exception (timeout, connection
\* error), any other value is resp.status_code
PostOutcomes == {0, 200, 302, 404, 503}

\* The stages that call .get on payload.get("inference", {}) outside any
\* isinstance test: they raise when the inference block is not a dict
InferenceReaders == {"shap_fat", "shap_ts", "shap_adulteration",
                     "alert_engine", "recommendation", "history"}

NoRun ==
    [kind |-> "none", fails |-> {}, stages |-> {}, outcome |-> "none",
     sample_id |-> None, last_at_dispatch |-> None, decision |-> "none",
     built_from |-> "none", requested |-> {}, reconstructed |-> {}, body |-> [has |-> FALSE], required |-> FALSE,
     rows0 |-> 0, attempt |-> 0, codes |-> <<>>, res |-> "none",
     ack |-> [has |-> FALSE], df |-> <<>>]

----------------------------------------------------------------------------
(* main.py: helpers of the dispatch step *)

\* The object app.mqtt_latest refers to: "mqtt" is on_message's payload
\* dict, "loader" is the body of the last /test/load-sample request
Deref(ref) == IF ref = "mqtt" THEN [kind |-> "dict", p |-> payload]
              ELSE [kind |-> loader.kind, p |-> loader.p]

\* _build_full_response raises on a latest object that is not a dict
\* (raw.copy / sample.items), on an inference block that is not a dict
\* (inf.get) and on "adulteration_recomputed": None (recomputed.get);
\* nothing in on_message catches it
BuildRaises(ref) ==
    /\ ref # None
    /\ \/ Deref(ref).kind # "dict"
       \/ ~Deref(ref).p.inference.isdict
       \/ Deref(ref).p.adulteration_recomputed.isnone

\* compute_full_analytics(raw) inside _build_full_response: its fallback
\* branch raises on "adulteration_recomputed": None, which the try catches
BuildAnalytics(file, raw, supplier_name, fails) ==
    IF fails \/ (load_history_df(file) = <<>>
                 /\ raw.adulteration_recomputed.isnone)
    THEN AnalyticsFailed
    ELSE compute_full_analytics(file, raw, supplier_name)

\* a dispatcher that sends the analytics the payload already holds, the
\* snapshot taken before the append
_build_full_response_Snapshot(file, raw, supplier_name, fails) ==
    LET analytics == raw.analytics
        recomputed == raw.adulteration_recomputed
        sample_block ==
            [sample_id |-> analytics.sample.sample_id,
             score |-> analytics.sample.score,
             fat |-> raw.inference.fat_predicted,
             snf |-> raw.inference.snf,
             ts |-> raw.inference.total_solids_predicted,
             traffic_cards |-> raw.traffic_cards,
             price |-> raw.price,
             milk_type |-> raw.milk_type,
             alerts |-> raw.alerts,
             recommendations |-> raw.recommendations,
             adulteration_risk |-> recomputed.adulteration_risk_recomputed,
             is_adulterated |-> recomputed.is_adulterated_recomputed]
    IN  [has |-> TRUE,
         analytics |-> [analytics EXCEPT !.sample = sample_block],
         shap |-> raw.shap]

\* The dict _build_full_response returns for a dict raw
_build_full_response(file, raw, supplier_name, fails) ==
    LET analytics == BuildAnalytics(file, raw, supplier_name, fails)
        recomputed == raw.adulteration_recomputed
        sample_block ==
            [sample_id |-> analytics.sample.sample_id,
             score |-> analytics.sample.score,
             fat |-> raw.inference.fat_predicted,
             snf |-> raw.inference.snf,
             ts |-> raw.inference.total_solids_predicted,
             traffic_cards |-> raw.traffic_cards,
             price |-> raw.price,
             milk_type |-> raw.milk_type,
             alerts |-> raw.alerts,
             recommendations |-> raw.recommendations,
             adulteration_risk |-> recomputed.adulteration_risk_recomputed,
             is_adulterated |-> recomputed.is_adulterated_recomputed]
    IN  [has |-> TRUE,
         analytics |-> [analytics EXCEPT !.sample = sample_block],
         shap |-> raw.shap]

\* a dispatcher that forgets the comparison with DispatchState
ShouldPost_Always(sample_id, last) == TRUE

\* if sample_id != app.last_pushed_sample_id
ShouldPost(sample_id, last) == sample_id # last

\* a loop that gives up one attempt early
PostStep_GivesUpEarly(attempt, code) ==
    IF code # 0
    THEN IF 200 <= code /\ code < 300 THEN "ok"
         ELSE IF 500 <= code /\ code < 600 /\ attempt < POST_RETRIES
              THEN "retry"
         ELSE "failed"
    ELSE IF attempt < POST_RETRIES THEN "retry" ELSE "failed"

\* a loop that retries every status that is not 2xx
PostStep_Retries4xx(attempt, code) ==
    IF code # 0
    THEN IF 200 <= code /\ code < 300 THEN "ok"
         ELSE IF 400 <= code /\ code < 600 /\ attempt <= POST_RETRIES
              THEN "retry"
         ELSE "failed"
    ELSE IF attempt <= POST_RETRIES THEN "retry" ELSE "failed"

\* One pass of the loop of _post_to_node: attempt is the loop variable,
\* code what requests.post did
PostStep(attempt, code) ==
    IF code # 0
    THEN IF 200 <= code /\ code < 300 THEN "ok"
         ELSE IF 500 <= code /\ code < 600 /\ attempt <= POST_RETRIES
              THEN "retry"
         ELSE "failed"
    ELSE IF attempt <= POST_RETRIES THEN "retry" ELSE "failed"

\* range(1, POST_RETRIES + 2): the loop variable has a next value
LoopContinues(attempt) == attempt + 1 < POST_RETRIES + 2

\* a dispatcher that records the sample whatever the POST returned
DispatchStateAfter_Always(res, sample_id, now, old) ==
    IF res # "none" THEN [id |-> sample_id, ts |-> now] ELSE old

\* res.get("ok") decides whether DispatchState is written
DispatchStateAfter(res, sample_id, now, old) ==
    IF res = "ok" THEN [id |-> sample_id, ts |-> now] ELSE old

----------------------------------------------------------------------------
(* main.py: on_message, one action per stretch of the callback *)

\* The stage raises during this run: its collaborator fails, or it reads
\* an inference block that is not a dict
StageRaises(stage) ==
    \/ stage \in run.fails
    \/ (stage \in InferenceReaders /\ ~payload.inference.isdict)

\* The history file an earlier run of the process left behind after n
\* samples: append_sample called on one message after the other
RECURSIVE HistoryAfter(_)
HistoryAfter(n) ==
    IF n = 0 THEN <<>>
    ELSE LET inf == InferenceOf(HistoricIds[n],
                                IF n % 2 = 0 THEN LowProfile ELSE GoodProfile)
             p == FreshPayload(inf)
         IN  append_sample(HistoryAfter(n - 1),
                           [p EXCEPT !.price = calculate_price(p)],
                           n - BATCH_SIZE)

\* The history file at process start: _ensure_history_exists creates an
\* empty one, or keeps the file that is there
HistoryFiles == {<<>>, HistoryAfter(BATCH_SIZE - 1)}

\* The state after the module is loaded, on the history file found
StartWith(file, cache) ==
    /\ ledger = file
    /\ mqtt_latest = None
    /\ last_pushed_sample_id = None
    /\ last_push_timestamp = NA
    /\ clock = 0
    /\ pc = "idle"
    /\ payload = FreshPayload(NoInference)
    /\ run = NoRun
    /\ alert_history = {}
    /\ loader = [pc |-> "idle", kind |-> "null", p |-> FreshPayload(NoInference)]
    /\ nmsg = 0
    /\ nload = 0
    /\ reader = [pc |-> "idle", n |-> 0, evals |-> <<>>,
                 shap_reads |-> <<>>, risks |-> <<>>]
    /\ _SHAP_CACHE = cache
    /\ _EXPLAINERS = [t \in Targets |-> FALSE]
    /\ constructed = {}

Start(file) == StartWith(file, <<>>)

Init == Start(<<>>)

\* the cache after n pushes of an earlier stretch of the process
CacheAfter(n) ==
    [i \in 1..n |-> [timestamp |-> i - SHAP_MAXLEN, sample_id |-> None,
                     fat |-> TRUE, ts |-> TRUE, adulteration |-> TRUE]]

ShapCaches == {<<>>, CacheAfter(SHAP_MAXLEN - 1)}

\* a process whose attribution cache is empty or one record short of its
\* capacity
InitCache == \E cache \in ShapCaches : StartWith(<<>>, cache)

\* a process started on any of the history files
InitData == \E file \in HistoryFiles : Start(file)

\* lines 187-199: json.loads, the print of payload.keys(), and
\* app.mqtt_latest = payload; max bounds the messages of one behaviour
Receive(msg, fails, max) ==
    /\ pc = "idle"
    /\ nmsg < max
    /\ nmsg' = nmsg + 1
    /\ clock' = clock + 1
    /\ IF msg.kind = "unparseable"
       THEN \* json.loads raised: logged, return
            /\ run' = [NoRun EXCEPT !.kind = msg.kind, !.outcome = "rejected",
                                    !.rows0 = Len(ledger)]
            /\ pc' = "done"
            /\ UNCHANGED <<payload, mqtt_latest>>
       ELSE IF msg.kind = "nondict"
       THEN \* payload.keys() raised AttributeError out of the callback
            /\ run' = [NoRun EXCEPT !.kind = msg.kind, !.outcome = "raised",
                                    !.rows0 = Len(ledger)]
            /\ pc' = "done"
            /\ UNCHANGED <<payload, mqtt_latest>>
       ELSE /\ run' = [NoRun EXCEPT !.kind = msg.kind, !.fails = fails,
                                    !.outcome = "running",
                                    !.rows0 = Len(ledger),
                                    !.required =
                                        HasRequiredFields(msg.inference)]
            /\ payload' = [FreshPayload(msg.inference)
                              EXCEPT !.top = TopOf(msg)]
            /\ mqtt_latest' = "mqtt"
            /\ pc' = "enrich"
    /\ UNCHANGED <<ledger, last_pushed_sample_id, last_push_timestamp,
                   alert_history, loader, nload, reader,
                   shap_state>>

\* lines 204-259: attribution, traffic cards, milk type, adulteration
\* recomputation, the random override, pricing; each in its own try/except
Enrich(score, model_available, override, override_value) ==
    /\ pc = "enrich"
    /\ LET f == run.fails
           shap == (IF StageRaises("shap_fat")
                    THEN {"fat_error"} ELSE {"fat"})
                   \cup (IF StageRaises("shap_ts")
                         THEN {"ts_error"} ELSE {"ts"})
                   \cup (IF StageRaises("shap_adulteration")
                         THEN {"adulteration_error"} ELSE {"adulteration"})
           p1 == [payload EXCEPT
                    !.shap = shap,
                    !.traffic_cards =
                        IF "traffic_cards" \in f THEN [has |-> FALSE]
                        ELSE compute_traffic_cards(payload),
                    !.traffic_cards_error = "traffic_cards" \in f]
           p2 == [p1 EXCEPT
                    !.milk_type = IF MilkTypeRaises(p1) THEN None
                                  ELSE classify_milk_from_payload(p1),
                    !.milk_type_error = MilkTypeRaises(p1)]
           \* recompute_adulteration_risk reads the inference block only
           \* once it has found the model
           anomaly_raises ==
               \/ "anomaly" \in f
               \/ (model_available /\ ~payload.inference.isdict)
           recomputed ==
               IF anomaly_raises THEN AdulterationAbsent
               ELSE IF ~model_available THEN AdulterationUnavailable
               ELSE recompute_adulteration_risk(score)
           \* the override writes into payload["adulteration_recomputed"];
           \* the KeyError of a missing key is caught
           overridden ==
               IF override /\ recomputed.has
               THEN [recomputed EXCEPT
                       !.adulteration_risk_recomputed = override_value,
                       !.is_adulterated_recomputed = 1]
               ELSE recomputed
           p3 == [p2 EXCEPT
                    !.adulteration_recomputed = overridden,
                    !.adulteration_recomputed_error = anomaly_raises]
           p4 == [p3 EXCEPT
                    !.price = IF "price" \in f THEN NA
                              ELSE calculate_price(p3),
                    !.price_error = "price" \in f]
       IN  payload' = p4
    /\ LET \* the attribution calls that get as far as their explainer: a
           \* failing call raises while it extracts the spectrum, and
           \* compute_adulteration_shap returns an error dict without the
           \* IsolationForest bundle
           called ==
               (IF StageRaises("shap_fat") THEN {} ELSE {"fat"})
               \cup (IF StageRaises("shap_ts") THEN {} ELSE {"ts"})
               \cup (IF StageRaises("shap_adulteration") \/ ~model_available
                     THEN {} ELSE {"adulteration"})
       IN  /\ _EXPLAINERS' = ExplainersAfter(_EXPLAINERS, called)
           /\ constructed' =
                  constructed \cup Constructing(_EXPLAINERS, called)
           /\ run' = [run EXCEPT
                        !.stages = @ \cup {"shap", "traffic_cards",
                                           "milk_type", "anomaly", "price"},
                        !.requested = called,
                        !.reconstructed =
                            Constructing(_EXPLAINERS, called)
                                \cap constructed]
    /\ pc' = "analytics"
    /\ UNCHANGED <<ledger, mqtt_latest, last_pushed_sample_id,
                   last_push_timestamp, clock, alert_history, loader,
                   nmsg, nload, reader, _SHAP_CACHE>>

\* lines 264-277: compute_full_analytics(payload) on the history file, then
\* push_shap_sample
\* readable: pd.read_csv succeeds on the history file during this call
Analytics(supplier_name, readable) ==
    /\ pc = "analytics"
    /\ LET file == IF "analytics" \in run.fails THEN ledger
                   ELSE _ensure_history_exists(ledger, readable)
       IN  /\ ledger' = file
           /\ payload' = [payload EXCEPT
                     !.analytics =
                         \* the fallback to the live payload reads the
                         \* inference block
                         IF \/ "analytics" \in run.fails
                            \/ (load_history_df(file) = <<>>
                                /\ ~payload.inference.isdict)
                         THEN AnalyticsFailed
                         ELSE compute_full_analytics(file, payload,
                                                     supplier_name),
                     !.has_analytics = TRUE]
    /\ _SHAP_CACHE' = IF PushRaises(payload) THEN _SHAP_CACHE
                      ELSE push_shap_sample(_SHAP_CACHE, payload, clock)
    /\ run' = [run EXCEPT !.stages = @ \cup {"analytics", "shap_cache"}]
    /\ pc' = "alerts"
    /\ UNCHANGED <<mqtt_latest, last_pushed_sample_id,
                   last_push_timestamp, clock, alert_history, loader,
                   nmsg, nload, reader, _EXPLAINERS, constructed>>

\* an engine that lets the alerts of a failed evaluation through
run_alert_engine_NoCatch(p, raises) == evaluate_alert_rules(p)

\* lines 333-339: evaluate_alert_rules in a try block, [] on any exception
run_alert_engine(p, raises) ==
    IF raises THEN <<>> ELSE evaluate_alert_rules(p)

\* insert_alert_to_db for the alerts of one evaluation: the rows the
\* alert_history table gains
AlertRows(alerts) ==
    {[type |-> alerts[i].type, sample_id |-> alerts[i].sample_id] :
        i \in 1..Len(alerts)}

\* lines 282-295: run_alert_engine(payload); every alert built is inserted
\* into alert_history (a failed insert is logged and swallowed)
AlertEngine ==
    /\ pc = "alerts"
    /\ LET alerts_triggered ==
               run_alert_engine(payload, StageRaises("alert_engine"))
       IN  /\ payload' = [payload EXCEPT !.alerts = alerts_triggered,
                                         !.has_alerts = TRUE]
           /\ alert_history' =
                  IF "alert_db" \in run.fails THEN alert_history
                  ELSE alert_history \cup AlertRows(alerts_triggered)
    /\ run' = [run EXCEPT !.stages = @ \cup {"alert_engine"}]
    /\ pc' = "reco"
    /\ UNCHANGED <<ledger, mqtt_latest, last_pushed_sample_id,
                   last_push_timestamp, clock, loader, nmsg, nload, reader,
                   shap_state>>

\* lines 300-305: run_recommendation_engine(payload, alerts_triggered)
Recommend ==
    /\ pc = "reco"
    /\ payload' = [payload EXCEPT
                     !.recommendations = ~StageRaises("recommendation")]
    /\ run' = [run EXCEPT !.stages = @ \cup {"recommendation"}]
    /\ pc' = "history"
    /\ UNCHANGED <<ledger, mqtt_latest, last_pushed_sample_id,
                   last_push_timestamp, clock, alert_history, loader,
                   nmsg, nload, reader,
                   shap_state>>

\* lines 310-314: append_sample(payload), which starts with
\* _ensure_history_exists and load_history_df
SaveHistory(readable) ==
    /\ pc = "history"
    /\ ledger' = IF StageRaises("history") THEN ledger
                 ELSE append_sample(_ensure_history_exists(ledger, readable),
                                    payload, clock)
    /\ run' = [run EXCEPT !.stages = @ \cup {"history"}]
    /\ pc' = "dispatch"
    /\ UNCHANGED <<mqtt_latest, last_pushed_sample_id, last_push_timestamp,
                   clock, payload, alert_history, loader, nmsg, nload,
                   reader,
                   shap_state>>

\* lines 319-343 up to the call of _post_to_node: build the body from
\* app.mqtt_latest, read the sample id from the local payload, decide
Dispatch(supplier_name, readable) ==
    /\ pc = "dispatch"
    /\ LET \* compute_full_analytics(raw) is reached and loads the history
           loads == /\ mqtt_latest # None
                    /\ Deref(mqtt_latest).kind = "dict"
                    /\ Deref(mqtt_latest).p.inference.isdict
                    /\ "build_analytics" \notin run.fails
       IN  ledger' = IF loads THEN _ensure_history_exists(ledger, readable)
                     ELSE ledger
    /\ IF BuildRaises(mqtt_latest) \/ ~payload.inference.isdict
       THEN \* _build_full_response raised, or the read of the sample id
            \* from an inference block that is not a dict did: the
            \* exception leaves on_message, no POST, no acknowledgment
            /\ run' = [run EXCEPT !.stages = @ \cup {"build"},
                                  !.outcome = "aborted"]
            /\ pc' = "done"
       ELSE LET full_payload ==
                    IF mqtt_latest = None THEN [has |-> FALSE]
                    ELSE _build_full_response(ledger', Deref(mqtt_latest).p,
                             supplier_name,
                             "build_analytics" \in run.fails)
                sample_id == SampleIdOf(payload)
                decision ==
                    IF ~full_payload.has THEN "nopayload"
                    ELSE IF ShouldPost(sample_id, last_pushed_sample_id)
                         THEN "post" ELSE "skip"
            IN  /\ run' = [run EXCEPT
                             !.stages = @ \cup {"build", "dispatch"},
                             !.sample_id = sample_id,
                             !.last_at_dispatch = last_pushed_sample_id,
                             !.decision = decision,
                             !.built_from = mqtt_latest,
                             !.body = full_payload]
                /\ pc' = IF decision = "post" THEN "post" ELSE "ack"
    /\ UNCHANGED <<mqtt_latest, last_pushed_sample_id,
                   last_push_timestamp, clock, payload, alert_history,
                   loader, nmsg, nload, reader,
                   shap_state>>

\* _post_to_node, one pass of its loop per step; on its return lines 334-339
PostAttempt(code) ==
    /\ pc = "post"
    /\ LET attempt == run.attempt + 1
           step == PostStep(attempt, code)
           res == IF step = "retry"
                  THEN IF LoopContinues(run.attempt + 1) THEN "none"
                       ELSE "failed"      \* {"ok": False, "error": "max_retries"}
                  ELSE step
           state == DispatchStateAfter(res, run.sample_id, clock,
                        [id |-> last_pushed_sample_id,
                         ts |-> last_push_timestamp])
       IN  /\ run' = [run EXCEPT !.attempt = attempt,
                                 !.codes = Append(@, code),
                                 !.res = res]
           /\ last_pushed_sample_id' = state.id
           /\ last_push_timestamp' = state.ts
           /\ pc' = IF res = "none" THEN "post" ELSE "ack"
    /\ UNCHANGED <<ledger, mqtt_latest, clock, payload, alert_history,
                   loader, nmsg, nload, reader,
                   shap_state>>

\* lines 348-357: client.publish("milk/spectra/ack", ...)
Ack ==
    /\ pc = "ack"
    /\ run' = [run EXCEPT
                 !.stages = @ \cup {"ack"},
                 !.outcome = "completed",
                 !.ack = [has |-> TRUE,
                          sample_id |-> IF run.sample_id = None
                                        THEN "unknown" ELSE run.sample_id,
                          status |-> "received_and_processed",
                          timestamp |-> clock]]
    /\ pc' = "done"
    /\ UNCHANGED <<ledger, mqtt_latest, last_pushed_sample_id,
                   last_push_timestamp, clock, payload, alert_history,
                   loader, nmsg, nload, reader,
                   shap_state>>

\* on_message returns (or its exception leaves the callback): the locals of
\* the call are gone, and no later step reads the dict it worked on, since
\* the next accepted message replaces app.mqtt_latest before any read
Return ==
    /\ pc = "done"
    /\ pc' = "idle"
    /\ run' = NoRun
    /\ payload' = FreshPayload(NoInference)
    /\ UNCHANGED <<ledger, mqtt_latest, last_pushed_sample_id,
                   last_push_timestamp, clock, alert_history, loader,
                   nmsg, nload, reader,
                   shap_state>>

----------------------------------------------------------------------------
(* routers/test_loader.py: POST /test/load-sample, served by another thread *)

LoaderBodies ==
    {[kind |-> "null", inference |-> NoInference],
     [kind |-> "nondict", inference |-> NoInference],
     [kind |-> "dict", inference |-> InferenceOf("L", LowProfile)]}

\* lines 17-20: payload = await request.json(); app.mqtt_latest = payload
LoadStore(body) ==
    /\ loader.pc = "idle"
    /\ nload < MaxLoads
    /\ nload' = nload + 1
    /\ loader' = [pc |-> IF body.kind = "dict" THEN "stored" ELSE "idle",
                  kind |-> body.kind,
                  p |-> FreshPayload(body.inference)]
    /\ mqtt_latest' = IF body.kind = "null" THEN None ELSE "loader"
    /\ UNCHANGED <<ledger, last_pushed_sample_id, last_push_timestamp, clock,
                   pc, payload, run, alert_history, nmsg, reader,
                   shap_state>>

\* lines 22-54 for a JSON object: the stages write into the stored dict; a
\* stage that raises leaves None under its key
LoadEnrich(score, outcome) ==
    /\ loader.pc = "stored"
    /\ loader' = [loader EXCEPT
                    !.pc = "idle",
                    !.p = [@ EXCEPT
                        !.shap = {"fat", "ts"},
                        !.traffic_cards = compute_traffic_cards(loader.p),
                        !.adulteration_recomputed =
                            IF outcome = "raise" THEN AdulterationNone
                            ELSE IF outcome = "unavailable"
                                 THEN AdulterationUnavailable
                            ELSE recompute_adulteration_risk(score),
                        !.price = calculate_price(loader.p)]]
    /\ LET \* compute_shap_for_payload for fat and ts (lines 23-34)
           called == IF loader.p.inference.isdict THEN {"fat", "ts"} ELSE {}
       IN  /\ _EXPLAINERS' = ExplainersAfter(_EXPLAINERS, called)
           /\ constructed' =
                  constructed \cup Constructing(_EXPLAINERS, called)
    /\ UNCHANGED <<ledger, mqtt_latest, last_pushed_sample_id,
                   last_push_timestamp, clock, pc, payload, run,
                   alert_history, nmsg, nload, reader, _SHAP_CACHE>>

----------------------------------------------------------------------------
(* append_sample step by step, next to a GET /analytics/full request that  *)
(* a thread of the server's thread pool serves                             *)

\* history_utils.py lines 154-262: _ensure_history_exists, load_history_df
\* and the entry; df holds the frame that line 267 concatenates
AppendRead ==
    /\ pc = "history"
    /\ IF StageRaises("history")
       THEN /\ run' = [run EXCEPT !.stages = @ \cup {"history"}]
            /\ pc' = "dispatch"
       ELSE /\ run' = [run EXCEPT !.df =
                          append_sample(_ensure_history_exists(ledger, TRUE),
                                        payload, clock)]
            /\ pc' = "history_open"
    /\ UNCHANGED <<ledger, mqtt_latest, last_pushed_sample_id,
                   last_push_timestamp, clock, payload, alert_history,
                   loader, nmsg, nload, reader,
                   shap_state>>

\* line 268, df.to_csv(HISTORY_FILE): opening the file for writing
\* truncates it
AppendOpen ==
    /\ pc = "history_open"
    /\ ledger' = <<>>
    /\ pc' = "history_write"
    /\ UNCHANGED <<mqtt_latest, last_pushed_sample_id, last_push_timestamp,
                   clock, payload, run, alert_history, loader, nmsg, nload,
                   reader,
                   shap_state>>

\* line 268: the rows are written and the file is closed
AppendWrite ==
    /\ pc = "history_write"
    /\ ledger' = run.df
    /\ run' = [run EXCEPT !.stages = @ \cup {"history"}]
    /\ pc' = "dispatch"
    /\ UNCHANGED <<mqtt_latest, last_pushed_sample_id, last_push_timestamp,
                   clock, payload, alert_history, loader, nmsg, nload,
                   reader,
                   shap_state>>

\* GET /analytics/full: compute_full_analytics() calls load_history_df,
\* whose _ensure_history_exists tests whether the file is missing or of
\* size 0 (lines 20-22); a file with rows is read and left alone
ReaderCheck ==
    /\ reader.pc = "idle"
    /\ reader.n < MaxReads
    /\ reader' = [reader EXCEPT
                    !.pc = IF ledger = <<>> THEN "create" ELSE "idle",
                    !.n = reader.n + 1]
    /\ UNCHANGED <<ledger, mqtt_latest, last_pushed_sample_id,
                   last_push_timestamp, clock, pc, payload, run,
                   alert_history, loader, nmsg, nload,
                   shap_state>>

\* line 21: _create_empty_history() overwrites the file with the header
ReaderCreate ==
    /\ reader.pc = "create"
    /\ ledger' = _create_empty_history
    /\ reader' = [reader EXCEPT !.pc = "idle"]
    /\ UNCHANGED <<mqtt_latest, last_pushed_sample_id, last_push_timestamp,
                   clock, pc, payload, run, alert_history, loader, nmsg,
                   nload,
                   shap_state>>

\* GET /analytics/full as a whole: load_history_df (with
\* _ensure_history_exists) and the five sub-records; supplier_name is what
\* random.choice(INDIAN_MILK_BRANDS) returns.  evals keeps, for each
\* evaluation, the ledger it started from, the ledger it left and its result
FullAnalytics(supplier_name, readable) ==
    /\ Len(reader.evals) < MaxQueries
    /\ LET file == _ensure_history_exists(ledger, readable)
       IN  /\ ledger' = file
           /\ reader' = [reader EXCEPT !.evals =
                 Append(@, [before |-> ledger,
                            after |-> file,
                            result |-> compute_full_analytics_NoPayload(
                                           file, supplier_name)])]
    /\ UNCHANGED <<mqtt_latest, last_pushed_sample_id, last_push_timestamp,
                   clock, pc, payload, run, alert_history, loader, nmsg,
                   nload,
                   shap_state>>

\* the SHAP analysis report (shap_analysis_report.py line 104), built by a
\* thread of the server: get_shap_history(limit=100) copies the deque under
\* _LOCK, the lock push_shap_sample appends under
ShapReport(limit) ==
    /\ Len(reader.shap_reads) < MaxShapReads
    /\ reader' = [reader EXCEPT !.shap_reads =
                     Append(@, [limit |-> limit,
                                cache |-> _SHAP_CACHE,
                                data |-> get_shap_history(_SHAP_CACHE,
                                                          limit)])]
    /\ UNCHANGED <<ledger, mqtt_latest, last_pushed_sample_id,
                   last_push_timestamp, clock, pc, payload, run,
                   alert_history, loader, nmsg, nload, shap_state>>

\* values on both sides of every default threshold, in ten-thousandths:
\* 3.4999, 3.5, 3.5001, ...
TrafficValues ==
    {NA, NonNumeric, 0, 34999, 35000, 35001, 44999, 45000, 45001,
     79999, 80000, 89999, 90000, 114999, 115000, 134999, 135000, 200000}

\* DEFAULT_THRESHOLDS in ten-thousandths
TrafficThresholds ==
    {[low |-> 1000 * DEFAULT_THRESHOLDS[k].low,
      high |-> 1000 * DEFAULT_THRESHOLDS[k].high] : k \in {"fat", "snf", "ts"}}

\* one call classify_traffic(value, low, high), as compute_traffic_cards
\* makes it for each reading (lines 85-98), on behalf of GET /risk/latest
Classify(value, t) ==
    /\ Len(reader.risks) < MaxClassify
    /\ reader' = [reader EXCEPT !.risks =
                     Append(@, [value |-> value, low |-> t.low,
                                high |-> t.high,
                                risk |-> classify_traffic(value, t.low,
                                                          t.high)])]
    /\ UNCHANGED <<ledger, mqtt_latest, last_pushed_sample_id,
                   last_push_timestamp, clock, pc, payload, run,
                   alert_history, loader, nmsg, nload, shap_state>>

----------------------------------------------------------------------------
(* Specifications.  The actions are the same in all of them; they differ   *)
(* in the inputs the environment offers.                                   *)

\* Spec: the MQTT thread alone, every kind of message, every POST outcome,
\* the IsolationForest bundle loaded
Next ==
    \/ \E msg \in CtlMessages : Receive(msg, {}, MaxMsgs)
    \/ \E score \in ScoreVals, override \in BOOLEAN, value \in OverrideVals :
          Enrich(score, TRUE, override, value)
    \/ \E name \in {"Amul"} : Analytics(name, TRUE)
    \/ AlertEngine
    \/ Recommend
    \/ SaveHistory(TRUE)
    \/ \E name \in {"Amul"} : Dispatch(name, TRUE)
    \/ \E code \in PostOutcomes : PostAttempt(code)
    \/ Ack
    \/ Return

Spec == Init /\ [][Next]_vars

\* SpecFaults: the MQTT thread alone, with collaborators that fail
NextFaults ==
    \/ \E msg \in CtlMessages, fails \in FailSets :
          Receive(msg, fails, MaxFaultMsgs)
    \/ \E score \in ScoreVals, available \in BOOLEAN, override \in BOOLEAN,
          value \in OverrideVals : Enrich(score, available, override, value)
    \/ \E name \in {"Amul"} : Analytics(name, TRUE)
    \/ AlertEngine
    \/ Recommend
    \/ SaveHistory(TRUE)
    \/ \E name \in {"Amul"} : Dispatch(name, TRUE)
    \/ \E code \in PostOutcomes : PostAttempt(code)
    \/ Ack
    \/ Return

SpecFaults == Init /\ [][NextFaults]_vars

\* SpecLoader: the MQTT thread and a /test/load-sample request
NextLoader ==
    \/ \E msg \in LoaderMessages : Receive(msg, {}, MaxLoaderMsgs)
    \/ \E score \in ScoreVals, override \in BOOLEAN, value \in OverrideVals :
          Enrich(score, TRUE, override, value)
    \/ \E name \in {"Amul"} : Analytics(name, TRUE)
    \/ AlertEngine
    \/ Recommend
    \/ SaveHistory(TRUE)
    \/ \E name \in {"Amul"} : Dispatch(name, TRUE)
    \/ \E code \in PostOutcomes : PostAttempt(code)
    \/ Ack
    \/ Return
    \/ \E body \in LoaderBodies : LoadStore(body)
    \/ \E score \in ScoreVals, outcome \in {"ok", "unavailable", "raise"} :
          LoadEnrich(score, outcome)

SpecLoader == Init /\ [][NextLoader]_vars

\* SpecData: well-formed samples of several suppliers and routes, a
\* downstream that answers 200
NextData ==
    \/ \E msg \in DataMessages : Receive(msg, {}, MaxDataMsgs)
    \/ \E score \in ScoreVals, value \in OverrideVals :
          Enrich(score, TRUE, FALSE, value)
    \/ \E name \in INDIAN_MILK_BRANDS : Analytics(name, TRUE)
    \/ AlertEngine
    \/ Recommend
    \/ SaveHistory(TRUE)
    \/ \E name \in INDIAN_MILK_BRANDS : Dispatch(name, TRUE)
    \/ PostAttempt(200)
    \/ Ack
    \/ Return

SpecData == InitData /\ [][NextData]_vars

\* SpecLedger: the MQTT thread alone on a history file that pd.read_csv may
\* fail to read, a downstream that answers 200
NextLedger ==
    \/ \E msg \in LedgerMessages : Receive(msg, {}, MaxLedgerMsgs)
    \/ \E score \in ScoreVals, value \in OverrideVals :
          Enrich(score, TRUE, FALSE, value)
    \/ \E readable \in BOOLEAN : Analytics("Amul", readable)
    \/ AlertEngine
    \/ Recommend
    \/ \E readable \in BOOLEAN : SaveHistory(readable)
    \/ \E readable \in BOOLEAN : Dispatch("Amul", readable)
    \/ PostAttempt(200)
    \/ Ack
    \/ Return

SpecLedger == Init /\ [][NextLedger]_vars

\* SpecRules: the readings that decide the rules, with and without the
\* IsolationForest model, from an empty history file
NextRules ==
    \/ \E msg \in RuleMessages : Receive(msg, {}, MaxRuleMsgs)
    \/ \E score \in ScoreVals, available \in BOOLEAN, value \in OverrideVals :
          Enrich(score, available, FALSE, value)
    \/ Analytics("Amul", TRUE)
    \/ AlertEngine
    \/ Recommend
    \/ SaveHistory(TRUE)
    \/ Dispatch("Amul", TRUE)
    \/ PostAttempt(200)
    \/ Ack
    \/ Return

SpecRules == Init /\ [][NextRules]_vars

\* SpecQueries: the MQTT thread and complete GET /analytics/full requests,
\* on the history files of InitData
NextQueries ==
    \/ \E msg \in DataMessages : Receive(msg, {}, MaxQueryMsgs)
    \/ \E score \in ScoreVals, value \in OverrideVals :
          Enrich(score, TRUE, FALSE, value)
    \/ \E name \in INDIAN_MILK_BRANDS : Analytics(name, TRUE)
    \/ AlertEngine
    \/ Recommend
    \/ SaveHistory(TRUE)
    \/ \E name \in INDIAN_MILK_BRANDS : Dispatch(name, TRUE)
    \/ PostAttempt(200)
    \/ Ack
    \/ Return
    \/ \E name \in INDIAN_MILK_BRANDS : FullAnalytics(name, TRUE)

SpecQueries == InitData /\ [][NextQueries]_vars

\* SpecEngine: runs whose rule evaluation raises, next to runs where it
\* does not
NextEngine ==
    \/ \E msg \in EngineMessages, fails \in EngineFailSets :
          Receive(msg, fails, MaxEngineMsgs)
    \/ \E score \in ScoreVals, available \in BOOLEAN, value \in OverrideVals :
          Enrich(score, available, FALSE, value)
    \/ Analytics("Amul", TRUE)
    \/ AlertEngine
    \/ Recommend
    \/ SaveHistory(TRUE)
    \/ Dispatch("Amul", TRUE)
    \/ PostAttempt(200)
    \/ Ack
    \/ Return

SpecEngine == Init /\ [][NextEngine]_vars

\* SpecCache: the MQTT thread pushing into the attribution cache, a report
\* thread reading it, from an empty and from an almost full cache
NextCache ==
    \/ \E msg \in CacheMessages : Receive(msg, {}, MaxCacheMsgs)
    \/ \E score \in ScoreVals, value \in OverrideVals :
          Enrich(score, TRUE, FALSE, value)
    \/ Analytics("Amul", TRUE)
    \/ AlertEngine
    \/ Recommend
    \/ SaveHistory(TRUE)
    \/ Dispatch("Amul", TRUE)
    \/ PostAttempt(200)
    \/ Ack
    \/ Return
    \/ \E limit \in {NA, 100} : ShapReport(limit)

SpecCache == InitCache /\ [][NextCache]_vars

\* SpecTraffic: classify_traffic applied to absent, non-numeric and numeric
\* values around the thresholds
NextTraffic ==
    \E value \in TrafficValues, t \in TrafficThresholds : Classify(value, t)

SpecTraffic == Init /\ [][NextTraffic]_vars

\* SpecTop: samples that carry readings as top-level fields
NextTop ==
    \/ \E msg \in TopMessages : Receive(msg, {}, MaxTopMsgs)
    \/ \E score \in ScoreVals, value \in OverrideVals :
          Enrich(score, TRUE, FALSE, value)
    \/ Analytics("Amul", TRUE)
    \/ AlertEngine
    \/ Recommend
    \/ SaveHistory(TRUE)
    \/ Dispatch("Amul", TRUE)
    \/ PostAttempt(200)
    \/ Ack
    \/ Return

SpecTop == Init /\ [][NextTop]_vars

\* SpecReaders: the MQTT thread and GET /analytics/full requests on the same
\* history file, a downstream that answers 200
NextReaders ==
    \/ \E msg \in ReaderMessages : Receive(msg, {}, MaxReaderMsgs)
    \/ \E score \in ScoreVals, value \in OverrideVals :
          Enrich(score, TRUE, FALSE, value)
    \/ Analytics("Amul", TRUE)
    \/ AlertEngine
    \/ Recommend
    \/ AppendRead
    \/ AppendOpen
    \/ AppendWrite
    \/ Dispatch("Amul", TRUE)
    \/ PostAttempt(200)
    \/ Ack
    \/ Return
    \/ ReaderCheck
    \/ ReaderCreate

SpecReaders == Init /\ [][NextReaders]_vars

----------------------------------------------------------------------------
(* Properties *)

Is2xx(code) == 200 <= code /\ code < 300
Is4xx(code) == 400 <= code /\ code < 500
\* a 5xx response or a network error
IsTransient(code) == code = 0 \/ (500 <= code /\ code < 600)

\* the run of on_message under way has taken its dispatch decision
Dispatched == run.decision # "none"

\* C1: a sample whose id equals DispatchState.last_sample_id at the moment
\* of dispatch gets no downstream POST attempt.
C1_DedupOnDispatch ==
    (Dispatched /\ run.sample_id = run.last_at_dispatch)
        => (run.attempt = 0 /\ run.codes = <<>> /\ pc # "post")

\* the same sample id arrived again right after its successful delivery and
\* the run went on to the acknowledgment without a POST
C1_Witness ==
    /\ pc = "done"
    /\ run.decision = "skip"
    /\ run.sample_id = "A"
    /\ run.last_at_dispatch = "A"
    /\ run.attempt = 0

\* C2: DispatchState is empty at process start and changes only in a step
\* in which the POST for the sample returned 2xx, when last_pushed_sample_id
\* becomes that sample's id; every other step leaves both fields unchanged.
C2_DispatchStateFrame ==
    /\ (last_pushed_sample_id = None /\ last_push_timestamp = NA)
    /\ [][(<<last_pushed_sample_id, last_push_timestamp>>'
              # <<last_pushed_sample_id, last_push_timestamp>>)
            => (/\ pc = "post"
                /\ run'.attempt = run.attempt + 1
                /\ Is2xx(run'.codes[Len(run'.codes)])
                /\ last_pushed_sample_id' = run.sample_id
                /\ last_push_timestamp' = clock)]_vars

\* a delivery was acknowledged with 2xx and DispatchState holds its sample,
\* after an earlier run had been dispatched without a payload, skipped or
\* failed
C2_Witness ==
    /\ pc = "ack"
    /\ run.res = "ok"
    /\ last_pushed_sample_id = run.sample_id
    /\ last_push_timestamp = clock
    /\ nmsg = 2

\* C3: _post_to_node makes at most 3 POST attempts for one sample; when every
\* attempt ends in a 5xx response or a network error it makes exactly 3 and
\* ends Failed; it stops at the first 2xx.
C3_BoundedRetry ==
    /\ run.attempt <= 3
    /\ run.attempt = Len(run.codes)
    /\ (pc = "post") = (run.decision = "post" /\ run.res = "none")
    /\ (run.decision = "post" /\ run.res # "none"
            /\ \A i \in 1..Len(run.codes) : IsTransient(run.codes[i]))
         => (run.attempt = 3 /\ run.res = "failed")
    /\ \A i \in 1..Len(run.codes) :
           Is2xx(run.codes[i]) => (i = Len(run.codes) /\ run.res = "ok")

\* 503 three times in a row: Failed after the third attempt
C3_Witness ==
    /\ run.codes = <<503, 503, 503>>
    /\ run.res = "failed"
    /\ pc = "ack"

\* C4: a 4xx response ends the delivery as Failed at once: no POST attempt
\* follows it and DispatchState is not updated.
C4_ClientErrorIsFinal ==
    \A i \in 1..Len(run.codes) :
        Is4xx(run.codes[i])
            => /\ i = Len(run.codes)
               /\ run.res = "failed"
               /\ pc # "post"
               /\ last_pushed_sample_id = run.last_at_dispatch

\* a 404 on the second attempt, after one retry of a 503
C4_Witness ==
    /\ run.codes = <<503, 404>>
    /\ run.res = "failed"
    /\ pc = "ack"
    /\ run.sample_id # last_pushed_sample_id

\* the call of on_message for a message that entered the pipeline is over
RunOver == pc = "done" /\ run.kind = "dict"

\* C5: every message that enters the pipeline (here: one that carries every
\* required field) is acknowledged with {sample_id, status:
\* "received_and_processed", timestamp} by the time on_message is over,
\* whatever the delivery did, and the acknowledgment is published only after
\* the dispatch step has finished.
C5_AcknowledgedAfterDispatch ==
    /\ (RunOver /\ run.required)
          => /\ run.ack.has
             /\ run.ack.status = "received_and_processed"
             /\ run.ack.sample_id = run.sample_id
    /\ run.ack.has
          => /\ Dispatched
             /\ run.decision = "post" => run.res \in {"ok", "failed"}

\* C6: a message that cannot be parsed, or that lacks a required inference
\* field, is rejected before the pipeline starts: no stage runs, no
\* HistoryEntry is appended, no POST is made, no acknowledgment is published.
C6_MalformedRejected ==
    (run.kind # "none" /\ ~run.required)
        => /\ run.stages = {}
           /\ Len(ledger) = run.rows0
           /\ run.attempt = 0
           /\ ~run.ack.has

\* the stretches of on_message, in the order it runs them
PipelineStages ==
    {"shap", "traffic_cards", "milk_type", "anomaly", "price", "analytics",
     "shap_cache", "alert_engine", "recommendation", "history", "build",
     "dispatch", "ack"}

\* C7: no stage aborts a run: whatever collaborators fail, a message accepted
\* into the pipeline has every stage executed and reaches the acknowledgment
\* step, and a failure shows only as the error field of its own stage.
C7_NoStageAborts ==
    RunOver
        => /\ run.outcome = "completed"
           /\ PipelineStages \subseteq run.stages
           /\ payload.traffic_cards_error = ("traffic_cards" \in run.fails)
           /\ payload.price_error = ("price" \in run.fails)

\* C8: the supplier, route, batch and global values embedded in a new
\* HistoryEntry are the reductions over the ledger as it was before the
\* entry was appended, and the step that appends the entry adds it, complete,
\* at the end of that ledger.
C8_PreAppendSnapshot ==
    [][ledger' # ledger =>
         LET entry == ledger'[Len(ledger')]
             sup == compute_supplier_metrics(
                        SupplierRows(ledger, entry.supplier_id))
             bat == compute_batch_metrics(BatchRows(ledger, entry.batch_id))
         IN  /\ ledger' = Append(ledger, entry)
             /\ entry.supplier_avg_fat = sup.avg_fat
             /\ entry.supplier_avg_snf = sup.avg_snf
             /\ entry.supplier_avg_ts = sup.avg_ts
             /\ entry.supplier_stability = sup.stability
             /\ entry.supplier_persistence = sup.persistence
             /\ entry.route_score =
                    compute_route_score(RouteRows(ledger, entry.route_id))
             /\ entry.batch_avg_score = bat.avg_score
             /\ entry.batch_adulteration_freq = bat.adulteration_freq
             /\ entry.global_quality_index =
                    compute_global_quality_index(ledger)]_vars

\* the second entry of batch 1 comes from the supplier of the first with
\* other readings: its batch average is the first one's score, not its own
C8_Witness ==
    /\ Len(ledger) = BATCH_SIZE + 2
    /\ LET entry == ledger[Len(ledger)]
           before == ledger[Len(ledger) - 1]
       IN  /\ entry.batch_id = 1
           /\ before.batch_id = 1
           /\ entry.supplier_id = before.supplier_id
           /\ entry.fat # before.fat
           /\ entry.sample_score # before.sample_score
           /\ entry.batch_avg_score = before.sample_score
           /\ entry.supplier_avg_fat # 100 * entry.fat
           /\ entry.supplier_avg_fat # 0

\* C9: the supplier, route and batch snapshots placed in payload["analytics"]
\* for an inbound sample are the reductions over the history rows whose
\* supplier_id, route_id and batch_id are the sample's own.
C9_SnapshotsOfOwnGroup ==
    (pc = "alerts" /\ payload.analytics.source = "history") =>
        LET sd == payload.inference.supplier_data
            a == payload.analytics
            own_batch == Len(ledger) \div BATCH_SIZE
            sup == compute_supplier_metrics(SupplierRows(ledger, sd.supplier_id))
            bat == compute_batch_metrics(BatchRows(ledger, own_batch))
        IN  /\ a.supplier.supplier_id = sd.supplier_id
            /\ a.supplier.avg_fat = sup.avg_fat
            /\ a.supplier.avg_snf = sup.avg_snf
            /\ a.supplier.avg_ts = sup.avg_ts
            /\ a.route.route_id = sd.route_id
            /\ a.route.route_score =
                   compute_route_score(RouteRows(ledger, sd.route_id))
            /\ a.batch.batch_id = own_batch
            /\ a.batch.adulteration_freq = bat.adulteration_freq

\* C10: when an alert is written to alert_history, the ledger already holds
\* a HistoryEntry of the alert's sample.
C10_AlertsReferencePersisted ==
    [][\A a \in alert_history' \ alert_history :
          \E i \in 1..Len(ledger) : ledger[i].sample_id = a.sample_id]_vars

\* C11: no two rows of the ledger have the same sample_id, also when the
\* same sample_id arrives more than once.
C11_SampleIdUnique ==
    \A i, j \in 1..Len(ledger) :
        i # j => ledger[i].sample_id # ledger[j].sample_id

\* s is a prefix of t
IsPrefix(s, t) == Len(s) <= Len(t) /\ SubSeq(t, 1, Len(s)) = s

\* C12: the ledger is append-only and insertion-ordered: every step leaves
\* the earlier content as a prefix of the new content, the content changes
\* only in an append_sample, and a successful append_sample adds exactly one
\* row at the end.
C12_AppendOnly ==
    [][/\ IsPrefix(ledger, ledger')
       /\ ledger' # ledger => pc = "history"
       /\ (pc = "history" /\ ~StageRaises("history"))
             => Len(ledger') = Len(ledger) + 1]_vars

\* C13: ledger mutations are serialized: nothing interleaves with the steps
\* read history -> compute snapshot -> append entry of a pipeline run, so
\* once the runs have finished the ledger holds the entry of every run, and
\* every entry's batch_id and snapshot were computed from a history that
\* holds all the rows appended before it.
C13_LedgerSerialized ==
    pc = "idle"
        => /\ Len(ledger) = nmsg
           /\ \A i \in 1..Len(ledger) :
                 /\ ledger[i].batch_id = (i - 1) \div BATCH_SIZE
                 /\ ledger[i].global_quality_index =
                        compute_global_quality_index(SubSeq(ledger, 1, i - 1))

\* the rule table of the specification, in its order
RuleOrder ==
    << "CRITICAL_ADULTERATION", "LOW_FAT", "LOW_SNF", "LOW_TS",
       "SUPPLIER_STABILITY_DROP", "SUPPLIER_PERSISTENCE_LOW",
       "ROUTE_QUALITY_LOW", "HIGH_BATCH_ADULTERATION_RATE",
       "MILK_TYPE_UNKNOWN" >>

\* the predicate of a rule on an enriched sample (a missing value counts as
\* 0, a missing or undefined statistic never satisfies a rule)
RuleHolds(p, t) ==
    LET adult == p.adulteration_recomputed
        Val(x) == IF x = NA THEN 0 ELSE x
        Below(stats, field, limit) ==
            stats.has /\ stats[field] # NA /\ stats[field] < limit
    IN  CASE t = "CRITICAL_ADULTERATION" ->
                 \/ Val(adult.adulteration_risk_recomputed) > 80000
                 \/ adult.is_adulterated_recomputed = 1
          [] t = "LOW_FAT" -> Val(p.inference.fat_predicted) < 25
          [] t = "LOW_SNF" -> Val(p.inference.snf) < 80
          [] t = "LOW_TS" -> Val(p.inference.total_solids_predicted) < 115
          [] t = "SUPPLIER_STABILITY_DROP" ->
                 /\ p.analytics.supplier.has
                 /\ p.analytics.supplier.stability.num # NA
                 /\ 4 * p.analytics.supplier.stability.num
                        < 100 * p.analytics.supplier.stability.den
          [] t = "SUPPLIER_PERSISTENCE_LOW" ->
                 Below(p.analytics.supplier, "persistence", 4000)
          [] t = "ROUTE_QUALITY_LOW" ->
                 Below(p.analytics.route, "route_score", 6000)
          [] t = "HIGH_BATCH_ADULTERATION_RATE" ->
                 /\ p.analytics.batch.has
                 /\ p.analytics.batch.adulteration_freq # NA
                 /\ p.analytics.batch.adulteration_freq > 3000
          [] t = "MILK_TYPE_UNKNOWN" ->
                 p.milk_type \notin {"cow", "buffalo", "mixed", "camel", "goat"}

AlertTypes(alerts) == [i \in 1..Len(alerts) |-> alerts[i].type]

\* the rule engine has returned from evaluate_alert_rules for the sample of
\* the current run
RulesEvaluated ==
    pc = "reco" /\ "alert_engine" \notin run.fails /\ payload.inference.isdict

\* C14: the rule engine is all-match: the alerts of a sample are, in
\* rule-table order, one alert for each rule whose predicate holds and none
\* for any other rule.
C14_AllMatchInOrder ==
    RulesEvaluated
        => AlertTypes(payload.alerts)
               = Filter(RuleOrder, LAMBDA t : RuleHolds(payload, t))

\* the scenario fat 2.0, snf 7.0, ts 10.0, risk 85 %, adulterated
C14_Witness ==
    /\ RulesEvaluated
    /\ payload.inference.fat_predicted = 20
    /\ payload.inference.snf = 70
    /\ payload.inference.total_solids_predicted = 100
    /\ payload.adulteration_recomputed.adulteration_risk_recomputed = 85000
    /\ payload.adulteration_recomputed.is_adulterated_recomputed = 1
    /\ Len(payload.alerts) >= 4
    /\ SubSeq(AlertTypes(payload.alerts), 1, 4)
           = << "CRITICAL_ADULTERATION", "LOW_FAT", "LOW_SNF", "LOW_TS" >>

\* the fat the rule engine works with: inference.fat_predicted, 0 when the
\* reading is missing
FatOf(p) == IF p.inference.fat_predicted = NA THEN 0 ELSE p.inference.fat_predicted

LowFatAlerts(alerts) == {i \in 1..Len(alerts) : alerts[i].type = "LOW_FAT"}

\* C15: LOW_FAT fires if and only if the sample's fat is below 2.5, and one
\* run of the rule engine produces exactly one LOW_FAT alert for a
\* qualifying sample, none for any other.
C15_LowFatOnce ==
    RulesEvaluated
        => Cardinality(LowFatAlerts(payload.alerts))
               = (IF FatOf(payload) < 25 THEN 1 ELSE 0)

\* a sample with fat 2.0 has gone through the rule engine
C15_Witness ==
    /\ RulesEvaluated
    /\ payload.inference.fat_predicted = 20
    /\ Cardinality(LowFatAlerts(payload.alerts)) = 1

\* rule evaluation raises for the sample of the current run
EngineRaises == run.kind = "dict" /\ StageRaises("alert_engine")

\* C16: an exception inside rule evaluation does not leave run_alert_engine:
\* the engine returns an empty list, the run records zero alerts for the
\* sample (none in the payload, none stored), and goes on with the stages
\* that follow, the recommendation engine and the history append.
C16_EngineErrorZeroAlerts ==
    [][EngineRaises
         => /\ pc = "alerts"
               => /\ payload'.has_alerts /\ payload'.alerts = <<>>
                  /\ alert_history' = alert_history
                  /\ run'.outcome = "running"
                  /\ pc' = "reco"
            /\ pc = "reco"
               => /\ payload'.alerts = <<>>
                  /\ "recommendation" \in run'.stages
                  /\ pc' = "history"
            /\ pc = "history"
               => /\ payload'.alerts = <<>>
                  /\ "history" \in run'.stages
                  /\ pc' = "dispatch"]_vars

\* a sample with every reading, whose rule evaluation raised, has been
\* through the recommendation engine and the history append
C16_Witness ==
    /\ pc = "dispatch"
    /\ run.required
    /\ "alert_engine" \in run.fails
    /\ payload.has_alerts /\ payload.alerts = <<>>
    /\ {"alert_engine", "recommendation", "history"} \subseteq run.stages

\* the persistence the specification defines for a group's fat readings, in
\* ten-thousandths: the non-negative ones among the n - 1 deltas, 1.0 for
\* fewer than two readings
DeltaPersistence(fats) ==
    IF Len(fats) < 2 THEN 10000
    ELSE RoundDiv(10000 * Cardinality({i \in 2..Len(fats) :
                                          fats[i] - fats[i - 1] >= 0}),
                  Len(fats) - 1)

\* C17: the persistence of a supplier with n >= 2 history rows is the number
\* of non-negative consecutive fat deltas divided by n - 1, and 1.0 with
\* fewer than two rows: every HistoryEntry carries that value for the rows
\* of its supplier that precede it.
C17_PersistenceOverDeltas ==
    \A i \in 1..Len(ledger) :
        ledger[i].supplier_persistence =
            DeltaPersistence(Column(SupplierRows(SubSeq(ledger, 1, i - 1),
                                                 ledger[i].supplier_id),
                                    "fat"))

\* the mean of all the sample_score values a ledger records, in hundredths
ScoreMean(df) == RoundDiv(SumSeq(Column(df, "sample_score")), Len(df))

\* the run has appended its entry: the ledger holds N = rows0 + 1 samples
Appended == run.kind = "dict" /\ Len(ledger) = run.rows0 + 1

C19_AnalyticsPure ==
    \A i, j \in 1..Len(reader.evals) :
        /\ reader.evals[i].after = reader.evals[i].before
        /\ reader.evals[i].before = reader.evals[j].before
              => reader.evals[i].result = reader.evals[j].result

\* the enriched sample of the current run carries an adulteration result
\* without an error field
HasAdulterationResult ==
    /\ run.kind = "dict"
    /\ payload.adulteration_recomputed.has
    /\ ~payload.adulteration_recomputed.isnone
    /\ ~payload.adulteration_recomputed.error

\* C20: an enriched sample that stands before the rule engine or before the
\* dispatcher with an adulteration result has a risk within [0, 100] percent
\* and a flag equal to (risk > 50).
C20_RiskAndFlag ==
    (pc \in {"alerts", "dispatch"} /\ HasAdulterationResult)
        => LET risk == payload.adulteration_recomputed
                              .adulteration_risk_recomputed
               flag == payload.adulteration_recomputed
                              .is_adulterated_recomputed
           IN  /\ 0 <= risk /\ risk <= 100000
               /\ flag = (IF risk > 50000 THEN 1 ELSE 0)

\* C21: the attribution cache is a bounded FIFO: it never holds more than
\* 200 records; a push adds its record at the end, keeps every other record
\* in place below capacity and discards the oldest one only at capacity; a
\* read on another thread returns the most recent records in push order and
\* leaves the cache alone.
C21_BoundedFifo ==
    [][/\ Len(_SHAP_CACHE') <= SHAP_MAXLEN
       /\ (pc = "analytics" /\ pc' = "alerts" /\ ~PushRaises(payload))
             => /\ _SHAP_CACHE' # <<>>
                /\ _SHAP_CACHE'[Len(_SHAP_CACHE')]
                       = ShapRecord(payload, clock)
                /\ IF Len(_SHAP_CACHE) < SHAP_MAXLEN
                   THEN SubSeq(_SHAP_CACHE', 1, Len(_SHAP_CACHE') - 1)
                            = _SHAP_CACHE
                   ELSE SubSeq(_SHAP_CACHE', 1, Len(_SHAP_CACHE') - 1)
                            = Tail(_SHAP_CACHE)
       /\ ~(pc = "analytics" /\ pc' = "alerts" /\ ~PushRaises(payload))
             => _SHAP_CACHE' = _SHAP_CACHE
       /\ \A i \in 1..Len(reader'.shap_reads) :
             LET r == reader'.shap_reads[i]
                 n == IF r.limit = NA \/ r.limit > Len(r.cache)
                      THEN Len(r.cache) ELSE r.limit
             IN  /\ Len(r.data) = n
                 /\ \A k \in 1..n :
                       r.data[k] = r.cache[Len(r.cache) - n + k]]_vars

\* a push at capacity has evicted the oldest record of a full cache
C21_Witness ==
    /\ Len(_SHAP_CACHE) = SHAP_MAXLEN
    /\ _SHAP_CACHE[1].timestamp > 1 - SHAP_MAXLEN
    /\ _SHAP_CACHE[SHAP_MAXLEN].timestamp > 0
    /\ reader.shap_reads # <<>>

\* every message so far appended its row to the ledger, so that the row
\* before the last one is the row of the message processed immediately
\* before the one under way
PredecessorKnown ==
    /\ nmsg >= 2
    /\ Len(ledger) = nmsg
    /\ ledger[nmsg - 1].sample_id \in SampleIds
    /\ run.sample_id \in SampleIds

\* C22: dedup is over the immediately preceding sample only: a sample is
\* skipped (no POST) if and only if its sample id equals the sample id of the
\* message processed immediately before it.
C22_DedupOnPredecessor ==
    (Dispatched /\ run.decision # "nopayload" /\ PredecessorKnown)
        => ((run.decision = "skip")
               <=> (run.sample_id = ledger[nmsg - 1].sample_id))

\* C22, amended: a sample is skipped (no POST) if and only if its sample id
\* equals DispatchState.last_sample_id, which is the id of the most recent
\* sample whose POST returned 2xx: a POST that returned 2xx stores its
\* sample's id, and no other step changes the stored id.
C22_DedupOnLastDelivered ==
    [][/\ (pc = "dispatch" /\ run'.decision \in {"post", "skip"})
             => ((run'.decision = "skip")
                    <=> (run'.sample_id = last_pushed_sample_id))
       /\ (pc = "post" /\ run'.res = "ok")
             => last_pushed_sample_id' = run.sample_id
       /\ ~(pc = "post" /\ run'.res = "ok")
             => last_pushed_sample_id' = last_pushed_sample_id]_vars

\* A was delivered, the delivery of B failed, and the second A is skipped
\* although the message before it was B
C22_Witness ==
    /\ pc = "ack"
    /\ run.decision = "skip"
    /\ run.sample_id = "A"
    /\ PredecessorKnown
    /\ ledger[nmsg - 1].sample_id = "B"
    /\ last_pushed_sample_id = "A"

\* the ledger holds the HistoryEntry of the sample under way: the row that
\* append_sample built from the payload and the rows before it
RowSaved ==
    \E i \in 1..Len(ledger) :
        /\ i > run.rows0
        /\ ledger[i] = HistoryEntry(SubSeq(ledger, 1, i - 1), payload, clock)

\* C23: a sample whose delivery ends Failed is not lost: its HistoryEntry is
\* in the ledger before every POST attempt, the first included, and still
\* there once the delivery has failed; after Failed no POST attempt is made
\* for that run.
C23_FailedNotLost ==
    [][/\ pc = "post" => RowSaved
       /\ (pc = "post" /\ run'.res = "failed")
             => /\ ledger' = ledger
                /\ pc' = "ack"
       /\ run.res = "failed"
             => /\ RowSaved
                /\ pc' # "post"
                /\ pc # "done" => (run'.codes = run.codes
                                     /\ run'.res = "failed")]_vars

\* three transient failures ended the delivery as Failed, the run is over
\* and the ledger holds the sample's row
C23_Witness ==
    /\ pc = "done"
    /\ run.res = "failed"
    /\ run.attempt = 3
    /\ run.outcome = "completed"
    /\ RowSaved
    /\ last_pushed_sample_id # run.sample_id

\* C24: classify_traffic is total: "unknown" for an absent or non-numeric
\* value, and for a number "red" below low, "green" from high on, "yellow"
\* otherwise; classify(3.5, 3.5, 4.5) = "yellow", classify(3.4999, 3.5, 4.5)
\* = "red", classify(4.5, 3.5, 4.5) = "green".
C24_ClassifyTotal ==
    /\ \A i \in 1..Len(reader.risks) :
          LET r == reader.risks[i]
          IN  /\ r.risk \in {"red", "yellow", "green", "unknown"}
              /\ (r.risk = "unknown") = (r.value \in {NA, NonNumeric})
              /\ r.value \notin {NA, NonNumeric}
                    => /\ (r.risk = "red") = (r.value < r.low)
                       /\ (r.risk = "green") = (r.value >= r.high)
                       /\ (r.risk = "yellow")
                              = (r.low <= r.value /\ r.value < r.high)
    /\ classify_traffic(35000, 35000, 45000) = "yellow"
    /\ classify_traffic(34999, 35000, 45000) = "red"
    /\ classify_traffic(45000, 35000, 45000) = "green"

\* 3.5 was classified against the fat thresholds, and a value that is no
\* number after it
C24_Witness ==
    /\ Len(reader.risks) = 2
    /\ reader.risks[1] = [value |-> 35000, low |-> 35000, high |-> 45000,
                          risk |-> "yellow"]
    /\ reader.risks[2].value = NonNumeric
    /\ reader.risks[2].risk = "unknown"

\* the value of a reading under the stated precedence: the top-level field,
\* else the field of the inference block, else 0
ByPrecedence(p, key) ==
    IF p.top[key] # NA THEN p.top[key]
    ELSE IF p.inference[key] # NA THEN p.inference[key]
    ELSE 0

HasAlert(p, t) == \E i \in 1..Len(p.alerts) : p.alerts[i].type = t

\* C25: the rule engine evaluates its predicates on the readings taken with
\* the precedence top-level field, else inference block, else 0: LOW_FAT,
\* LOW_SNF and LOW_TS fire exactly when the reading so taken is below the
\* rule's threshold.
C25_RuleValuePrecedence ==
    RulesEvaluated
        => /\ HasAlert(payload, "LOW_FAT")
                 = (ByPrecedence(payload, "fat_predicted") < 25)
           /\ HasAlert(payload, "LOW_SNF")
                 = (ByPrecedence(payload, "snf") < 80)
           /\ HasAlert(payload, "LOW_TS")
                 = (ByPrecedence(payload, "total_solids_predicted") < 115)

\* C26: explainer construction is memoized per target: no run of on_message
\* constructs the explainer of a target for which one was constructed
\* before, and a later request reuses the stored one.
C26_ExplainerMemoized == run.reconstructed = {}

\* C27: the adulteration_risk and is_adulterated of a sample's ledger row
\* equal the risk and flag the rule engine evaluated and the dispatcher
\* delivered for that sample.
C27_LedgerHoldsEnriched ==
    (Dispatched /\ run.body.has /\ RowSaved
       /\ payload.adulteration_recomputed.has)
        => LET row == ledger[run.rows0 + 1]
               evaluated == get_final_adulteration(payload)
               delivered == run.body.analytics.sample
           IN  /\ delivered.adulteration_risk = evaluated.risk
               /\ delivered.is_adulterated = evaluated.flag
               /\ row.adulteration_risk = evaluated.risk
               /\ row.is_adulterated = evaluated.flag

\* C28: in every interleaving of the MQTT callback with /test/load-sample,
\* the body posted for an MQTT message is built from that message: the
\* sample that fills the posted payload is the one whose id is compared
\* with DispatchState and stored into it on success.
C28_BodyOfSameMessage ==
    (Dispatched /\ run.decision = "post")
        => /\ run.built_from = "mqtt"
           /\ run.body.analytics.sample.fat = payload.inference.fat_predicted
           /\ run.body.analytics.sample.alerts = payload.alerts
           /\ (~run.body.analytics.error /\ run.sample_id # None)
                 => run.body.analytics.sample.sample_id = run.sample_id
           /\ run.res = "ok" => last_pushed_sample_id = run.sample_id

\* the run under way is for a JSON object that carries no sample id
IdLess ==
    /\ run.kind = "dict"
    /\ payload.inference.isdict
    /\ payload.inference.supplier_data.sample_id = None

\* C29: sample identity is not unified across stages: for a message without
\* sample id the dispatcher's identity is None, so with DispatchState still
\* empty the message is skipped with no POST attempt, and after a successful
\* dispatch of an id-bearing sample it is posted; its ledger row gets a
\* generated id and its acknowledgment carries "unknown".
C29_IdentityNotUnified ==
    /\ (IdLess /\ Dispatched)
          => /\ run.sample_id = None
             /\ run.last_at_dispatch = None
                   => (run.decision # "post" /\ run.attempt = 0)
             /\ (run.last_at_dispatch # None /\ run.body.has)
                   => run.decision = "post"
             /\ RowSaved => ledger[run.rows0 + 1].sample_id = Uuid4(clock)
    /\ (IdLess /\ run.ack.has) => run.ack.sample_id = "unknown"

\* an id-less message was skipped on an empty DispatchState and
\* acknowledged as "unknown", its row in the ledger under a generated id
C29_Witness ==
    /\ IdLess
    /\ pc = "done"
    /\ run.decision = "skip"
    /\ last_pushed_sample_id = None
    /\ run.ack.has
    /\ run.ack.sample_id = "unknown"
    /\ RowSaved
    /\ ledger[run.rows0 + 1].sample_id = Uuid4(clock)

\* the run under way has appended its row, and both analytics computations
\* of the run returned a result
BothSnapshots ==
    /\ Dispatched
    /\ run.body.has
    /\ run.built_from = "mqtt"
    /\ RowSaved
    /\ payload.has_analytics
    /\ ~payload.analytics.error
    /\ ~run.body.analytics.error

\* C30: the analytics of the posted payload are computed after the append,
\* over a ledger that includes the new row; the snapshot the rule engine
\* evaluated was computed before the append; when the append succeeds the
\* two ledgers differ by exactly that row.
C30_AnalyticsAfterAppend ==
    BothSnapshots
        => LET before == SubSeq(ledger, 1, run.rows0)
               evaluated == payload.analytics
               posted == run.body.analytics
           IN  /\ ledger = Append(before, ledger[Len(ledger)])
               /\ posted.rows = Len(ledger)
               /\ posted.source = "history"
               /\ posted.global = compute_global_analytics(ledger)
               /\ posted.batch
                      = compute_batch_analytics(ledger, ledger[Len(ledger)])
               /\ evaluated.rows = run.rows0
               /\ posted.rows = evaluated.rows + 1
               /\ evaluated.source = "history"
                     => /\ before # <<>>
                        /\ evaluated.global = compute_global_analytics(before)
                        /\ evaluated.batch
                               = compute_batch_analytics(before,
                                                         before[Len(before)])
               /\ evaluated.source = "payload" => before = <<>>

\* a sample was dispatched whose two snapshots come from the history file and
\* give different global values: the posted one counts the new row
C30_Witness ==
    /\ BothSnapshots
    /\ payload.analytics.source = "history"
    /\ run.body.analytics.rows = payload.analytics.rows + 1
    /\ run.body.analytics.global.total_samples
           = payload.analytics.global.total_samples + 1
    /\ run.body.analytics.global.global_quality_index
           # payload.analytics.global.global_quality_index

====
